---- MODULE Spec2Model ----
(***************************************************************************)
(* A model of pool_racing: the PLOC builder (src/src/ploc.rs), the         *)
(* parallel executors (src/src/par), the radix sort (src/src/radix) and    *)
(* the BVH2 traversal (src/src/bvh.rs).                                    *)
(*                                                                         *)
(* Arrays are TLA+ sequences; At(s, i) reads the element the code calls    *)
(* s[i] (0-based).  Coordinates are small integers, on which every f32 and *)
(* f64 operation the builder performs is exact.                            *)
(***************************************************************************)
EXTENDS Integers, Sequences, FiniteSets, TLC

VARIABLES
    \* ---- build_ploc (src/src/ploc.rs) ----
    pc,             \* position in build_ploc
    sched,          \* ploc_scheduler()
    threads,        \* default_chunk_count = ploc_scheduler().current_num_threads()
    aabbs,          \* the input slice
    current_nodes,  \* current_nodes
    pending,        \* chunks of the running par_chunks_mut not yet executed
    local_aabbs,    \* the ThreadLocal<RefCell<Aabb>>: thread id -> reducer
    total_aabb,     \* total_aabb
    nodes,          \* nodes
    insert_index,   \* insert_index
    merge,          \* merge (as left by the last pass)
    depth,          \* depth
    emitted,        \* history: pairs emitted so far
    \* ---- radix::sorter::sort (src/src/radix) ----
    data,           \* the slice being sorted
    input,          \* history: data as passed to sort
    tasks,          \* the calls of handle_chunk not yet executed
    paths,          \* history: the branches handle_chunk has taken
    \* ---- Bvh2::traverse (src/src/bvh.rs), on the Bvh2 in nodes ----
    stack,          \* state.stack
    ray,            \* state.ray
    closest_t,      \* closest_t of the caller
    closest_id,     \* closest_id of the caller
    prim_t,         \* intersection_fn(ray, id), by primitive id
    tmax0,          \* history: ray.tmax as passed to new_traversal
    hits,           \* history: [t, id] at every return of true
    invoked,        \* history: the ids intersection_fn was called with
    later,          \* history: the calls of traverse made after it returned false
    pushed,         \* history: the node indices pushed on state.stack, in order
    \* ---- one call of a routine on its own ----
    call_args,      \* the arguments of the call
    call_log        \* what the call has done

buildVars == << pc, sched, threads, aabbs, current_nodes, pending, local_aabbs,
                total_aabb, nodes, insert_index, merge, depth, emitted >>

sortVars == << data, input, tasks, paths >>

travVars == << stack, ray, closest_t, closest_id, prim_t, tmax0, hits, invoked, later,
              pushed >>

callVars == << call_args, call_log >>

vars == << buildVars, sortVars, travVars, callVars >>

-----------------------------------------------------------------------------
(* Bounds of the model *)

\* the largest number of input AABBs
MaxPrims == 3
\* the largest worker count (available parallelism)
MaxThreads == 3
\* the record/apply emission is taken from this many current nodes on (10000
\* in the code)
ParMergeMin == 3
\* the most nodes of current_nodes in a merge pass on its own
MaxCurrent == 4
\* the longest slice handed to par_chunks_mut and par_map
MaxParLen == 6
\* the largest chunk_size of par_chunks_mut and the largest chunks of par_map
MaxChunk == 7
\* the most calls of traverse after it has returned false
MaxLaterCalls == 2
\* the longest slice handed to sort
MaxLen == 4
\* the number of values of a key byte (256 in the code)
Radix == 3
\* LEVELS of the keys handed to sort
SortLevels == 2
\* the longest chunk of the comparative fallback (128 in the code)
CmpMax == 2
\* the shortest chunk counted in tiles (260_000 in the code)
TileMin == 4
\* the smallest tile (30_000 in the code)
TileSizeMin == 2
\* the shortest chunk checked for a single byte value (30_000 in the code)
HomogenousMin == 2
\* the shortest tile counted in parallel (400_000 in the code)
ParCountsMin == 2

(* Program constants *)

\* f32::MAX, standing above every finite value the model computes
F32_MAX == 1073741823
\* Morton64::LEVELS
MortonLevels == 8
\* chunk_divisor of par_get_counts_with_ends
ChunkDivisor == 8
\* 1.0 / f32::EPSILON
InvEpsilon == 8388608
\* f32::INFINITY, above F32_MAX
Infinity == 1073741824

-----------------------------------------------------------------------------
(* Helpers *)

At(s, i) == s[i + 1]
Min2(a, b) == IF a < b THEN a ELSE b
Max2(a, b) == IF a > b THEN a ELSE b
DivCeil(a, b) == (a + b - 1) \div b
SetAt(s, i, v) == [s EXCEPT ![i + 1] = v]

RECURSIVE Filled(_, _)
\* vec![v; n]
Filled(n, v) == IF n <= 0 THEN << >> ELSE Append(Filled(n - 1, v), v)

Pow2(k) == 2 ^ k

RECURSIVE PermSeqs(_)
\* the orderings of a finite set, as sequences
PermSeqs(S) ==
    IF S = {} THEN { << >> }
    ELSE UNION { { << x >> \o p : p \in PermSeqs(S \ { x }) } : x \in S }

\* the permutations of 1..n, as sequences
Perms(n) == PermSeqs(1..n)

-----------------------------------------------------------------------------
(* Aabb (src/src/aabb.rs) *)

VMin(u, v) == [i \in 1..3 |-> Min2(u[i], v[i])]
VMax(u, v) == [i \in 1..3 |-> Max2(u[i], v[i])]

FromPoint(p) == [min |-> p, max |-> p]

Union(a, b) == [min |-> VMin(a.min, b.min), max |-> VMax(a.max, b.max)]

Extend(a, p) == Union(a, FromPoint(p))

Diagonal(a) == [i \in 1..3 |-> a.max[i] - a.min[i]]

\* an f32 result: a magnitude above f32::MAX overflows to an infinity
F32(v) == IF v > F32_MAX THEN Infinity ELSE IF v < -F32_MAX THEN -Infinity ELSE v

HalfArea(a) ==
    LET d == Diagonal(a) IN F32(F32(F32(d[1] + d[2]) * d[3]) + F32(d[1] * d[2]))

EmptyAabb == [min |-> << F32_MAX, F32_MAX, F32_MAX >>,
              max |-> << -F32_MAX, -F32_MAX, -F32_MAX >>]

\* a contains b
Contains(a, b) == \A i \in 1..3 : a.min[i] <= b.min[i] /\ b.max[i] <= a.max[i]

\* Aabb::default(): the derived Default, min = max = the origin
DefaultAabb == [min |-> << 0, 0, 0 >>, max |-> << 0, 0, 0 >>]

\* Bvh2Node::default()
DefaultNode == [aabb |-> DefaultAabb, index |-> 0]

-----------------------------------------------------------------------------
(* Inputs of the builder *)

\* the boxes inputs are drawn from: every union of them has an extent of 0, 1
\* or 2 along each axis, so 1.0 / diagonal is exact (or infinite)
Boxes ==
    { [min |-> << 0, 0, 0 >>, max |-> << 1, 1, 1 >>],
      [min |-> << 1, 0, 0 >>, max |-> << 2, 1, 1 >>],
      [min |-> << 0, 1, 0 >>, max |-> << 2, 2, 1 >>],
      [min |-> << 2, 2, 1 >>, max |-> << 2, 2, 1 >>] }

Schedulers == { "SequentialOptimized", "Sequential", "Chili", "Raw" }

\* Scheduler::current_num_threads, for an available parallelism of n
CurrentNumThreads(s, n) ==
    IF s \in { "SequentialOptimized", "Sequential" } THEN 1 ELSE n

-----------------------------------------------------------------------------
(* The executors' par_chunks_mut (src/src/par): the calls func(chunk_id,     *)
(* slice) a backend makes, as records [id, off, len] in spawn order, where   *)
(* the slice is data[off .. off + len).                                      *)

RECURSIVE RecursiveSplit(_, _, _, _)
RecursiveSplit(start_chunk, off, len, chunk_size) ==
    IF len <= chunk_size
    THEN << [id |-> start_chunk, off |-> off, len |-> len] >>
    ELSE LET n_chunks    == DivCeil(len, chunk_size)
             left_chunks == n_chunks \div 2
             left_len    == Min2(left_chunks * chunk_size, len)
         IN  RecursiveSplit(start_chunk, off, left_len, chunk_size)
             \o RecursiveSplit(start_chunk + left_chunks, off + left_len,
                               len - left_len, chunk_size)

\* par_sequential::par_chunks_mut, par_chili::par_chunks_mut
ParChunksSplit(len, chunk_size) ==
    IF len = 0 THEN << >> ELSE RecursiveSplit(0, 0, len, Max2(chunk_size, 1))

RECURSIVE RawLoop(_, _, _, _, _)
\* the loop of par_raw::par_chunks_mut over the rest of the slice
RawLoop(chunk_id, chunk_count, off, slice_len, chunk_size) ==
    IF chunk_id = chunk_count THEN << >>
    ELSE LET left == Min2(chunk_size, slice_len)
         IN  << [id |-> chunk_id, off |-> off, len |-> left] >>
             \o RawLoop(chunk_id + 1, chunk_count, off + left, slice_len - left,
                        chunk_size)

\* par_raw::par_chunks_mut
ParChunksRaw(len, chunk_size) ==
    IF len = 0 THEN << >>
    ELSE LET cs          == Max2(chunk_size, 1)
             chunk_count == DivCeil(len, cs)
         IN  IF chunk_count = 1
             THEN << [id |-> 0, off |-> 0, len |-> len] >>
             ELSE RawLoop(0, chunk_count, 0, len, cs)

\* the elements beyond the last full chunk are left out
ParChunksMutFullOnly(s, len, chunk_size) ==
    ParChunksSplit(len - (len % Max2(chunk_size, 1)), chunk_size)

\* Scheduler::par_chunks_mut
ParChunksMut(s, len, chunk_size) ==
    IF s = "Raw" THEN ParChunksRaw(len, chunk_size)
    ELSE ParChunksSplit(len, chunk_size)

\* the threads a backend may run the call of chunk c on, of nchunks calls:
\* the caller is thread 0; par_raw spawns a thread per chunk and runs the last
\* chunk on the caller; chili runs a call on any worker of the pool (the
\* workers are interchangeable: one that has run nothing yet is named by the
\* least id not in used)
ChunkThreads(s, n, c, nchunks, used) ==
    CASE s \in { "SequentialOptimized", "Sequential" } -> { 0 }
      [] s = "Raw" -> IF c.id = nchunks - 1 THEN { 0 } ELSE { c.id + 1 }
      [] OTHER -> { t \in 0 .. (n - 1) :
                      t \in used \/ \A u \in 0 .. (t - 1) : u \in used }

\* the orders in which the n calls an executor makes may run: the sequential
\* executor makes them one after the other; par_raw runs them on threads of
\* their own and chili on the workers of its pool, in any order.  A call
\* writes its own slice only and reads what no call writes, so that an
\* interleaving of the calls is an order of them.
RunOrders(s, n) ==
    IF s \in { "SequentialOptimized", "Sequential" } THEN { [k \in 1..n |-> k] }
    ELSE Perms(n)

\* the calls in the order p
InOrder(calls, p) == [k \in 1..Len(calls) |-> calls[p[k]]]

\* the calls of an executor in the orders they may run in
RunsOf(s, calls) ==
    UNION { { InOrder(c, p) : p \in RunOrders(s, Len(c)) } : c \in { calls } }

-----------------------------------------------------------------------------
(* build_ploc, phase A: leaf initialisation (src/src/ploc.rs:51-109) *)

\* the node init_node returns
InitNode(prim_index, aabb) == [aabb |-> aabb, index |-> -prim_index - 1]

\* the reducer holds the last box only
InitNodeTotalLast(total, aabb) == Extend(FromPoint(aabb.min), aabb.max)
\* what init_node leaves in its reducer
InitNodeTotal(total, aabb) == Extend(Extend(total, aabb.min), aabb.max)

\* the start a chunk closure computes from its chunk id
ChunkStart(c, chunk_size) == c.id * chunk_size

RECURSIVE InitClosureNodes(_, _, _, _, _)
\* the init_nodes closure on chunk c: the nodes array after its writes
InitClosureNodes(cur, in, c, chunk_size, i) ==
    IF i = c.len THEN cur
    ELSE LET prim_index == ChunkStart(c, chunk_size) + i
         IN  InitClosureNodes(
                 SetAt(cur, c.off + i, InitNode(prim_index, At(in, prim_index))),
                 in, c, chunk_size, i + 1)

RECURSIVE InitClosureLocal(_, _, _, _, _)
\* the init_nodes closure on chunk c: the thread's reducer after it
InitClosureLocal(local, in, c, chunk_size, i) ==
    IF i = c.len THEN local
    ELSE LET prim_index == ChunkStart(c, chunk_size) + i
         IN  InitClosureLocal(InitNodeTotal(local, At(in, prim_index)),
                              in, c, chunk_size, i + 1)

RECURSIVE SeqOptInit(_, _, _)
\* the SequentialOptimized loop: << current_nodes, total_aabb >>
SeqOptInit(in, prim_index, acc) ==
    IF prim_index = Len(in) THEN acc
    ELSE LET aabb == At(in, prim_index)
             t1   == Extend(Extend(acc[2], aabb.min), aabb.max)
         IN  SeqOptInit(in, prim_index + 1,
                 << SetAt(acc[1], prim_index, InitNode(prim_index, aabb)),
                    InitNodeTotal(t1, aabb) >>)

RECURSIVE ReduceLocals(_, _)
\* the merge of the thread-local reducers into total_aabb
ReduceLocals(total, locals) ==
    IF DOMAIN locals = {} THEN total
    ELSE LET t == CHOOSE x \in DOMAIN locals : TRUE
             l == locals[t]
         IN  ReduceLocals(Extend(Extend(total, l.min), l.max),
                          [x \in DOMAIN locals \ {t} |-> locals[x]])

SeqOf(s) == { s[i] : i \in 1..Len(s) }

-----------------------------------------------------------------------------
(* The executors' par_map (src/src/par): the calls func(idx, &mut data[pos]) *)
(* a backend makes, as records [idx, pos].                                   *)

RECURSIVE MapRange(_, _, _, _)
\* for (index, output) in data.iter_mut().enumerate() { func(base + index, output) }
MapRange(base_id, off, len, i) ==
    IF i = len THEN << >>
    ELSE << [idx |-> base_id + i, pos |-> off + i] >> \o MapRange(base_id, off, len, i + 1)

\* par_sequential::par_map
ParMapSequential(len) == MapRange(0, 0, len, 0)

RECURSIVE Log2Floor(_)
\* 31 - chunks.leading_zeros(), for chunks >= 1
Log2Floor(n) == IF n <= 1 THEN 0 ELSE 1 + Log2Floor(n \div 2)

RECURSIVE MapSplit(_, _, _, _)
\* recursive_split of par_chili::par_map
MapSplit(off, len, base_id, splits_left) ==
    IF splits_left = 0 THEN MapRange(base_id, off, len, 0)
    ELSE LET split_id == len \div 2
         IN  MapSplit(off, split_id, base_id, splits_left - 1)
             \o MapSplit(off + split_id, len - split_id, base_id + split_id,
                         splits_left - 1)

\* par_chili::par_map
ParMapChili(len, chunks) == MapSplit(0, len, 0, Log2Floor(chunks))

RECURSIVE MapRawLoop(_, _, _, _, _)
\* the loop of par_raw::par_map over the rest of the slice
MapRawLoop(chunk_id, chunk_count, off, slice_len, chunk_size) ==
    IF chunk_id = chunk_count THEN << >>
    ELSE LET left == Min2(chunk_size, slice_len)
         IN  MapRange(chunk_id * chunk_size, off, left, 0)
             \o MapRawLoop(chunk_id + 1, chunk_count, off + left, slice_len - left,
                           chunk_size)

\* the chunk size is rounded down
ParMapRawFloor(len, chunks, n) ==
    IF len = 0 THEN << >>
    ELSE LET chunk_count == Min2(Max2(chunks, 1), n * 6)
         IN  IF chunk_count = 1 THEN MapRange(0, 0, len, 0)
             ELSE MapRawLoop(0, chunk_count, 0, len, len \div chunk_count)

\* par_raw::par_map, for an available parallelism of n
ParMapRaw(len, chunks, n) ==
    IF len = 0 THEN << >>
    ELSE LET max_chunks  == n * 6
             chunk_count == Min2(Max2(chunks, 1), max_chunks)
             chunk_size  == DivCeil(len, chunk_count)
         IN  IF chunk_count = 1 THEN MapRange(0, 0, len, 0)
             ELSE MapRawLoop(0, chunk_count, 0, len, chunk_size)

\* Scheduler::par_map
ParMap(s, len, chunks, n) ==
    CASE s = "Raw" -> ParMapRaw(len, chunks, n)
      [] s = "Chili" -> ParMapChili(len, chunks)
      [] OTHER -> ParMapSequential(len)

-----------------------------------------------------------------------------
(* Morton codes (src/src/morton.rs).  A u64 is the set of its set bits.      *)

Bits(lo, hi) == lo .. hi
\* the bits of a, for 0 <= a < 2^31
U64(a) == { k \in 0..30 : (a \div Pow2(k)) % 2 = 1 }
Shl(x, n) == { b + n : b \in x } \cap (0..63)
BitAnd(x, m) == x \cap m
BitOr(x, y) == x \cup y

Mask1fffff == Bits(0, 20)
Mask1f00000000ffff == Bits(0, 15) \cup Bits(48, 52)
Mask1f0000ff0000ff == Bits(0, 7) \cup Bits(24, 31) \cup Bits(48, 52)
Mask100f00f00f00f00f ==
    Bits(0, 3) \cup Bits(12, 15) \cup Bits(24, 27) \cup Bits(36, 39)
    \cup Bits(48, 51) \cup { 60 }
Mask10c30c30c30c30c3 ==
    Bits(0, 1) \cup Bits(6, 7) \cup Bits(12, 13) \cup Bits(18, 19)
    \cup Bits(24, 25) \cup Bits(30, 31) \cup Bits(36, 37) \cup Bits(42, 43)
    \cup Bits(48, 49) \cup Bits(54, 55) \cup { 60 }
\* the last mask without its bit 60
Mask0249249249249249 == { 3 * k : k \in 0..19 }
Mask1249249249249249 == { 3 * k : k \in 0..20 }

split_by_3_u64(a) ==
    LET x0 == BitAnd(U64(a), Mask1fffff)
        x1 == BitAnd(BitOr(x0, Shl(x0, 32)), Mask1f00000000ffff)
        x2 == BitAnd(BitOr(x1, Shl(x1, 16)), Mask1f0000ff0000ff)
        x3 == BitAnd(BitOr(x2, Shl(x2, 8)), Mask100f00f00f00f00f)
        x4 == BitAnd(BitOr(x3, Shl(x3, 4)), Mask10c30c30c30c30c3)
        x5 == BitAnd(BitOr(x4, Shl(x4, 2)), Mask1249249249249249)
    IN  x5

morton_encode_u64(x, y, z) ==
    BitOr(BitOr(split_by_3_u64(x), Shl(split_by_3_u64(y), 1)),
          Shl(split_by_3_u64(z), 2))

\* (center * scale + offset) * 2^21 as u32 along axis i, for a node box a and
\* the total box t: with d = t.max - t.min a power of two the f64 arithmetic is
\* exact, the product is (a.max + a.min - 2 t.min) * 2^20 / d, and the cast
\* truncates and saturates; with d = 0 the scale is infinite, the sum is NaN
\* and the cast gives 0
UnormAxis(a, t, i) ==
    LET d == t.max[i] - t.min[i]
        n == a.max[i] + a.min[i] - 2 * t.min[i]
    IN  IF d = 0 THEN 0
        ELSE IF n < 0 THEN 0
        ELSE (n * Pow2(20)) \div d

\* morton_encode_u64_unorm of the scaled centre of a
MortonOf(a, t) ==
    morton_encode_u64(UnormAxis(a, t, 1), UnormAxis(a, t, 2), UnormAxis(a, t, 3))

-----------------------------------------------------------------------------
(* Radix keys.  An element either is a Morton64, [index, code], or carries   *)
(* its bytes in key, key[level + 1] being get_level(level).                  *)

\* u64::get_level: byte `level` of the code, level 0 the least significant
ByteOf(code, level) ==
    LET F[k \in 0..8] ==
            IF k = 0 THEN 0
            ELSE F[k - 1] + (IF 8 * level + k - 1 \in code THEN Pow2(k - 1) ELSE 0)
    IN  F[8]

\* RadixKey::get_level
GetLevel(e, level) ==
    IF "code" \in DOMAIN e THEN ByteOf(e.code, level) ELSE e.key[level + 1]

\* the bytes get_level gives for levels 0 .. level
KeyBytes(e, level) == [l \in 1..(level + 1) |-> GetLevel(e, l - 1)]

CmpTopByteOnly(ka, kb, level) ==
    IF ka[level + 1] < kb[level + 1] THEN -1
    ELSE IF ka[level + 1] > kb[level + 1] THEN 1 ELSE 0
RECURSIVE CmpBytes(_, _, _)
\* the loop of the comparator over bytes already read
CmpBytes(ka, kb, level) ==
    LET x   == ka[level + 1]
        y   == kb[level + 1]
        cmp == IF x < y THEN -1 ELSE IF x > y THEN 1 ELSE 0
    IN  IF level # 0 /\ cmp = 0 THEN CmpBytes(ka, kb, level - 1) ELSE cmp

\* the comparator of comparative_sort: -1, 0, 1 for Less, Equal, Greater
CmpLevels(a, b, level) == CmpBytes(KeyBytes(a, level), KeyBytes(b, level), level)

\* slice::sort_unstable_by with that comparator: some ordering of the slice
\* that the comparator accepts; the order of elements that compare equal is
\* not specified
SortUnstableBy(bucket, level) ==
    LET n    == Len(bucket)
        keys == [i \in 1..n |-> KeyBytes(bucket[i], level)]
    IN  { [i \in 1..n |-> bucket[p[i]]] :
            p \in { q \in Perms(n) :
                      \A i \in 1..(n - 1) :
                          CmpBytes(keys[q[i]], keys[q[i + 1]], level) <= 0 } }

\* comparative_sort: the arrays it may leave
ComparativeSort(bucket, start_level) ==
    IF Len(bucket) < 2 THEN { bucket } ELSE SortUnstableBy(bucket, start_level)

-----------------------------------------------------------------------------
(* build_ploc, phase B: sort_nodes_m64 (src/src/ploc.rs:357-402) *)

\* Morton64::default()
DefaultMorton == [index |-> 0, code |-> {}]

RECURSIVE GenMortons(_, _, _, _, _)
\* the "generate Morton64s" closure, applied for the calls of par_map
GenMortons(mortons, calls, k, cur, total) ==
    IF k > Len(calls) THEN mortons
    ELSE LET c == calls[k]
             m == [index |-> c.idx, code |-> MortonOf(At(cur, c.idx).aabb, total)]
         IN  GenMortons(SetAt(mortons, c.pos, m), calls, k + 1, cur, total)

RECURSIVE CopyBack(_, _, _, _, _)
\* the "copy back sorted" closure, applied for the calls of par_map
CopyBack(sorted, calls, k, cur, mortons) ==
    IF k > Len(calls) THEN sorted
    ELSE LET c == calls[k]
         IN  CopyBack(SetAt(sorted, c.pos, At(cur, At(mortons, c.idx).index)),
                      calls, k + 1, cur, mortons)

\* radix::sorter::sort on the Morton64 array: with at most 128 elements
\* handle_chunk takes its comparative branch at level LEVELS - 1
SortMortons(mortons) ==
    IF Len(mortons) <= 1 THEN { mortons }
    ELSE ComparativeSort(mortons, MortonLevels - 1)

\* sort_nodes_m64: the arrays it may leave in sorted_nodes
SortNodesM64(cur, total, s, n) ==
    LET len     == Len(cur)
        runs    == RunsOf(s, ParMap(s, len, n, n))
        mortons == { GenMortons(Filled(len, DefaultMorton), c, 1, cur, total) :
                       c \in runs }
        sorted  == UNION { SortMortons(m) : m \in mortons }
    IN  { CopyBack(Filled(len, DefaultNode), q[2], 1, cur, q[1]) : q \in sorted \X runs }

-----------------------------------------------------------------------------
(* build_ploc, phase C: the merge passes (src/src/ploc.rs:146-322) *)

\* the cost of merging current[i] and current[i + 1]
Cost(cur, i) == HalfArea(Union(At(cur, i).aabb, At(cur, i + 1).aabb))

\* *merge_n = if last_cost < cost { -1 } else { 1 }
Direction(last_cost, cost) == IF last_cost < cost THEN -1 ELSE 1

RECURSIVE SeqDirections(_, _, _, _, _)
\* the SequentialOptimized pass over 0..count
SeqDirections(mg, cur, i, count, last_cost) ==
    IF i = count THEN mg
    ELSE LET cost == Cost(cur, i)
         IN  SeqDirections(SetAt(mg, i, Direction(last_cost, cost)), cur, i + 1,
                           count, cost)

\* the start the calculate_costs closure computes from its chunk id
CostChunkStart(c, chunk_size) == c.id * chunk_size

RECURSIVE CostsLoop(_, _, _, _, _, _)
\* the loop of the calculate_costs closure over its chunk
CostsLoop(mg, cur, c, start, local_n, last_cost) ==
    IF local_n = c.len THEN mg
    ELSE LET i    == local_n + start
             cost == Cost(cur, i)
         IN  CostsLoop(SetAt(mg, c.off + local_n, Direction(last_cost, cost)), cur,
                       c, start, local_n + 1, cost)

\* the calculate_costs closure on chunk c
CalculateCosts(mg, cur, c, chunk_size) ==
    LET start     == CostChunkStart(c, chunk_size)
        last_cost == IF start = 0 THEN F32_MAX ELSE Cost(cur, start - 1)
    IN  CostsLoop(mg, cur, c, start, 0, last_cost)

RECURSIVE ChunkedDirections(_, _, _, _, _)
\* the closure applied to every chunk of par_chunks_mut (the chunks are
\* disjoint slices of merge and only read current_nodes)
ChunkedDirections(mg, cur, chunks, k, chunk_size) ==
    IF k > Len(chunks) THEN mg
    ELSE ChunkedDirections(CalculateCosts(mg, cur, chunks[k], chunk_size), cur,
                           chunks, k + 1, chunk_size)

\* the last box always prefers the box before it
LastDirectionKept(mg, len) == mg
LastDirection(mg, len) == SetAt(mg, len - 1, -1)

\* "ploc calculate merge directions" and merge.resize, the calls of
\* par_chunks_mut made in their order in chunks
MergeDirectionsIn(mg, cur, s, n, chunks) ==
    LET len        == Len(cur)
        count      == len - 1
        chunk_size == count \div n
        m1 == IF s = "SequentialOptimized"
              THEN SeqDirections(mg, cur, 0, count, F32_MAX)
              ELSE ChunkedDirections(mg, cur, chunks, 1, chunk_size)
    IN  SubSeq(LastDirection(m1, len), 1, len)

\* the chunks par_chunks_mut makes of merge[..count]
DirectionChunks(cur, s, n) == ParChunksMut(s, Len(cur) - 1, (Len(cur) - 1) \div n)

\* the merge arrays the direction pass may leave
MergeDirections(mg, cur, s, n) ==
    { MergeDirectionsIn(mg, cur, s, n, c) : c \in RunsOf(s, DirectionChunks(cur, s, n)) }

ParentWrongIndex(left, right, ins) ==
    [aabb |-> Union(left.aabb, right.aabb), index |-> ins + 1]
ParentLeftOnly(left, right, ins) == [aabb |-> left.aabb, index |-> ins]
ParentOfNextPair(left, right, ins) ==
    [aabb |-> Union(left.aabb, right.aabb), index |-> ins + 2]
\* the parent pushed for a pair stored at insert_index
Parent(left, right, ins) == [aabb |-> Union(left.aabb, right.aabb), index |-> ins]

RECURSIVE MergeSequential(_, _, _, _)
\* "ploc merge sequential": st = [next, nodes, insert_index, ok]
MergeSequential(cur, mg, index, st) ==
    IF index >= Len(cur) \/ ~st.ok THEN st
    ELSE LET index_offset == At(mg, index)
             best_index   == index + index_offset
         IN  IF best_index < 0 \/ best_index >= Len(mg)
             THEN [st EXCEPT !.ok = FALSE]
             ELSE IF best_index + At(mg, best_index) # index
             THEN MergeSequential(cur, mg, index + 1,
                      [st EXCEPT !.next = Append(@, At(cur, index))])
             ELSE IF best_index > index
             THEN MergeSequential(cur, mg, index + 1, st)
             ELSE LET left  == At(cur, index)
                      right == At(cur, best_index)
                      ins   == st.insert_index - 2
                  IN  IF ins < 0 THEN [st EXCEPT !.ok = FALSE]
                      ELSE MergeSequential(cur, mg,
                               IF index_offset = 1 THEN index + 2 ELSE index + 1,
                               [next |-> Append(st.next, Parent(left, right, ins)),
                                nodes |-> SetAt(SetAt(st.nodes, ins, left), ins + 1, right),
                                insert_index |-> ins,
                                ok |-> TRUE])

\* NextNodeIndices: u32::MAX
U32Max == -1

\* the pair is recorded at its lower member, which becomes the left child
NextNodeIndexAtLower(mg, merge_index) ==
    LET best_index == merge_index + At(mg, merge_index)
    IN  IF best_index < 0 \/ best_index >= Len(mg)
        THEN [left |-> U32Max, right |-> U32Max, ok |-> FALSE]
        ELSE IF best_index + At(mg, best_index) # merge_index
        THEN [left |-> merge_index, right |-> U32Max, ok |-> TRUE]
        ELSE IF best_index >= merge_index
        THEN [left |-> merge_index, right |-> best_index, ok |-> TRUE]
        ELSE [left |-> U32Max, right |-> U32Max, ok |-> TRUE]

\* the lower member of a mutual pair is kept for the next pass as well
NextNodeIndexKeepsLower(mg, merge_index) ==
    LET best_index == merge_index + At(mg, merge_index)
    IN  IF best_index < 0 \/ best_index >= Len(mg)
        THEN [left |-> U32Max, right |-> U32Max, ok |-> FALSE]
        ELSE IF best_index + At(mg, best_index) # merge_index \/ best_index > merge_index
        THEN [left |-> merge_index, right |-> U32Max, ok |-> TRUE]
        ELSE [left |-> merge_index, right |-> best_index, ok |-> TRUE]

\* the "write NextNodeIndices" closure for one merge_index
NextNodeIndex(mg, merge_index) ==
    LET best_index == merge_index + At(mg, merge_index)
    IN  IF best_index < 0 \/ best_index >= Len(mg)
        THEN [left |-> U32Max, right |-> U32Max, ok |-> FALSE]
        ELSE IF best_index + At(mg, best_index) # merge_index
        THEN [left |-> merge_index, right |-> U32Max, ok |-> TRUE]
        ELSE IF best_index <= merge_index
        THEN [left |-> merge_index, right |-> best_index, ok |-> TRUE]
        ELSE [left |-> U32Max, right |-> U32Max, ok |-> TRUE]

RECURSIVE ApplyNextNodeInd(_, _, _, _)
\* "apply next_node_ind"
ApplyNextNodeInd(cur, ind, k, st) ==
    IF k > Len(ind) \/ ~st.ok THEN st
    ELSE LET n == ind[k]
         IN  IF ~n.ok THEN [st EXCEPT !.ok = FALSE]
             ELSE IF n.left = U32Max THEN ApplyNextNodeInd(cur, ind, k + 1, st)
             ELSE IF n.right = U32Max
             THEN ApplyNextNodeInd(cur, ind, k + 1,
                      [st EXCEPT !.next = Append(@, At(cur, n.left))])
             ELSE LET left  == At(cur, n.left)
                      right == At(cur, n.right)
                      ins   == st.insert_index - 2
                  IN  IF ins < 0 THEN [st EXCEPT !.ok = FALSE]
                      ELSE ApplyNextNodeInd(cur, ind, k + 1,
                               [next |-> Append(st.next, Parent(left, right, ins)),
                                nodes |-> SetAt(SetAt(st.nodes, ins, left), ins + 1, right),
                                insert_index |-> ins,
                                ok |-> TRUE])

\* NextNodeIndices::default()
DefaultNextNodeIndices == [left |-> U32Max, right |-> U32Max, ok |-> TRUE]

RECURSIVE RecordLoop(_, _, _, _, _, _)
\* the loop of the "write NextNodeIndices" closure over merge[start..end], on
\* the chunk c of next_node_ind
RecordLoop(ind, mg, c, start, end, data_index) ==
    IF start + data_index >= end THEN ind
    ELSE RecordLoop(SetAt(ind, c.off + data_index,
                          NextNodeIndex(mg, start + data_index)),
                    mg, c, start, end, data_index + 1)

RECURSIVE RecordChunks(_, _, _, _, _)
\* the closure applied to every chunk of par_chunks_mut (the chunks are
\* disjoint slices of next_node_ind and only read merge)
RecordChunks(ind, mg, chunks, k, chunk_size) ==
    IF k > Len(chunks) THEN ind
    ELSE LET start == chunks[k].id * chunk_size
             end   == Min2(start + chunk_size, Len(mg))
         IN  RecordChunks(RecordLoop(ind, mg, chunks[k], start, end, 0), mg, chunks,
                          k + 1, chunk_size)

\* "ploc merge parallel": next_node_ind after par_chunks_mut, its calls made
\* in their order in chunks
NextNodeIndIn(mg, n, chunks) ==
    RecordChunks(Filled(Len(mg), DefaultNextNodeIndices), mg, chunks, 1,
                 DivCeil(Len(mg), n))

\* the chunks par_chunks_mut makes of next_node_ind
RecordChunksOf(mg, s, n) == ParChunksMut(s, Len(mg), DivCeil(Len(mg), n))

\* the next_node_ind arrays the record pass may leave
NextNodeInd(mg, s, n) ==
    { NextNodeIndIn(mg, n, c) : c \in RunsOf(s, RecordChunksOf(mg, s, n)) }

\* "ploc merge parallel" and "apply next_node_ind": next_node_ind is complete
\* when the apply loop starts
MergeRecordApply(cur, mg, s, n, st) ==
    { ApplyNextNodeInd(cur, ind, 1, st) : ind \in NextNodeInd(mg, s, n) }

\* the emission of one pass takes the sequential path
EmitsSequentially(cur, s) == s = "SequentialOptimized" \/ Len(cur) < ParMergeMin

\* the emission of one pass: the states it may end in
MergeEmit(cur, mg, s, n, st) ==
    IF EmitsSequentially(cur, s)
    THEN { MergeSequential(cur, mg, 0, st) }
    ELSE MergeRecordApply(cur, mg, s, n, st)

-----------------------------------------------------------------------------
(* build_ploc as a state machine *)

NodesCountEven(prim_count) == 2 * prim_count
\* nodes_count
NodesCount(prim_count) == Max2(2 * prim_count - 1, 0)

\* sort is not running on its own
SortIdle ==
    /\ data = << >>
    /\ input = << >>
    /\ tasks = {}
    /\ paths = {}

\* no routine is called on its own
CallIdle ==
    /\ call_args = << >>
    /\ call_log = << >>

\* no traversal is running
TravIdle ==
    /\ stack = << >>
    /\ ray = << >>
    /\ closest_t = 0
    /\ closest_id = 0
    /\ prim_t = << >>
    /\ tmax0 = 0
    /\ hits = << >>
    /\ invoked = << >>
    /\ later = 0
    /\ pushed = << >>

Inputs == UNION { [1..k -> Boxes] : k \in 0..MaxPrims }

InitBuild ==
    /\ pc = "start"
    /\ sched \in Schedulers
    /\ \E n \in 1..MaxThreads : threads = CurrentNumThreads(sched, n)
    /\ aabbs \in Inputs
    /\ current_nodes = << >>
    /\ pending = {}
    /\ local_aabbs = << >>
    /\ total_aabb = EmptyAabb
    /\ nodes = << >>
    /\ insert_index = 0
    /\ merge = << >>
    /\ depth = 0
    /\ emitted = 0
    /\ SortIdle
    /\ TravIdle
    /\ CallIdle

\* prim_count == 0: return Bvh2::default()
BuildEmpty ==
    /\ pc = "start"
    /\ Len(aabbs) = 0
    /\ pc' = "done"
    /\ UNCHANGED << sched, threads, aabbs, current_nodes, pending, local_aabbs,
                    total_aabb, nodes, insert_index, merge, depth, emitted >>
    /\ UNCHANGED << sortVars, travVars, callVars >>

\* "init nodes" under SequentialOptimized
InitSequentialOptimized ==
    /\ pc = "start"
    /\ Len(aabbs) > 0
    /\ sched = "SequentialOptimized"
    /\ LET r == SeqOptInit(aabbs, 0,
                    << Filled(Len(aabbs), DefaultNode), total_aabb >>)
       IN  /\ current_nodes' = r[1]
           /\ total_aabb' = r[2]
    /\ pc' = "sort"
    /\ UNCHANGED << sched, threads, aabbs, pending, local_aabbs, nodes,
                    insert_index, merge, depth, emitted >>
    /\ UNCHANGED << sortVars, travVars, callVars >>

\* "init nodes" under the other schedulers: par_chunks_mut hands out the chunks
InitSpawn ==
    /\ pc = "start"
    /\ Len(aabbs) > 0
    /\ sched # "SequentialOptimized"
    /\ current_nodes' = Filled(Len(aabbs), DefaultNode)
    /\ pending' = SeqOf(ParChunksMut(sched, Len(aabbs), Len(aabbs) \div threads))
    /\ pc' = "init"
    /\ UNCHANGED << sched, threads, aabbs, local_aabbs, total_aabb, nodes,
                    insert_index, merge, depth, emitted >>
    /\ UNCHANGED << sortVars, travVars, callVars >>

\* one call of the init_nodes closure, on some thread the backend may use; the
\* sequential backend makes the calls from the first chunk to the last
InitChunk ==
    /\ pc = "init"
    /\ \E c \in pending :
         /\ sched = "Sequential" => \A d \in pending : c.off <= d.off
         /\ \E tid \in ChunkThreads(sched, threads, c,
                           Len(ParChunksMut(sched, Len(aabbs), Len(aabbs) \div threads)),
                           DOMAIN local_aabbs) :
              LET chunk_size == Len(aabbs) \div threads
                  \* local_aabbs.get_or_default(): a new reducer is Aabb::default()
                  local == IF tid \in DOMAIN local_aabbs THEN local_aabbs[tid]
                           ELSE DefaultAabb
              IN  /\ current_nodes' = InitClosureNodes(current_nodes, aabbs, c, chunk_size, 0)
                  /\ local_aabbs' =
                        [t \in DOMAIN local_aabbs \cup { tid } |->
                            IF t = tid
                            THEN InitClosureLocal(local, aabbs, c, chunk_size, 0)
                            ELSE local_aabbs[t]]
                  /\ pending' = pending \ { c }
    /\ UNCHANGED << pc, sched, threads, aabbs, total_aabb, nodes, insert_index,
                    merge, depth, emitted >>
    /\ UNCHANGED << sortVars, travVars, callVars >>

\* par_chunks_mut has returned: the thread-local reducers are merged
InitReduce ==
    /\ pc = "init"
    /\ pending = {}
    /\ total_aabb' = ReduceLocals(total_aabb, local_aabbs)
    /\ pc' = "sort"
    /\ UNCHANGED << sched, threads, aabbs, current_nodes, pending, local_aabbs,
                    nodes, insert_index, merge, depth, emitted >>
    /\ UNCHANGED << sortVars, travVars, callVars >>

\* sort_nodes_m64, the swap, and the allocation of nodes, merge, insert_index
SortNodes ==
    /\ pc = "sort"
    /\ LET prim_count  == Len(aabbs)
           nodes_count == NodesCount(prim_count)
       IN  /\ current_nodes' \in SortNodesM64(current_nodes, total_aabb, sched, threads)
           /\ nodes' = Filled(nodes_count, DefaultNode)
           /\ insert_index' = nodes_count
           /\ merge' = Filled(prim_count, 0)
    /\ pc' = "merge"
    /\ UNCHANGED << sched, threads, aabbs, pending, local_aabbs, total_aabb, depth,
                    emitted >>
    /\ UNCHANGED << sortVars, travVars, callVars >>

\* one pass of `while current_nodes.len() > 1`
MergePass ==
    /\ pc = "merge"
    /\ Len(current_nodes) > 1
    /\ \E mg \in MergeDirections(merge, current_nodes, sched, threads) :
         \E r \in MergeEmit(current_nodes, mg, sched, threads,
                            [next |-> << >>, nodes |-> nodes,
                             insert_index |-> insert_index, ok |-> TRUE]) :
             /\ merge' = mg
             /\ current_nodes' = r.next
             /\ nodes' = r.nodes
             /\ insert_index' = r.insert_index
             /\ emitted' = emitted + (Len(current_nodes) - Len(r.next))
             /\ pc' = IF r.ok THEN "merge" ELSE "panic"
    /\ depth' = depth + 1
    /\ UNCHANGED << sched, threads, aabbs, pending, local_aabbs, total_aabb >>
    /\ UNCHANGED << sortVars, travVars, callVars >>

\* the loop has ended: the surviving node is stored and the tree returned
PlaceRoot ==
    /\ pc = "merge"
    /\ Len(current_nodes) <= 1
    /\ LET ins == Max2(insert_index - 1, 0)
       IN  /\ insert_index' = ins
           /\ nodes' = SetAt(nodes, ins, At(current_nodes, 0))
    /\ pc' = "done"
    /\ UNCHANGED << sched, threads, aabbs, current_nodes, pending, local_aabbs,
                    total_aabb, merge, depth, emitted >>
    /\ UNCHANGED << sortVars, travVars, callVars >>

NextBuild ==
    \/ BuildEmpty
    \/ InitSequentialOptimized
    \/ InitSpawn
    \/ InitChunk
    \/ InitReduce
    \/ SortNodes
    \/ MergePass
    \/ PlaceRoot

SpecBuild == InitBuild /\ [][NextBuild]_vars

\* the thread running the merge loop keeps running: a pass that can be taken
\* is taken, and so is the placement of the root after the loop
SpecBuildFair == SpecBuild /\ WF_vars(MergePass) /\ WF_vars(PlaceRoot)

-----------------------------------------------------------------------------
(* Properties of build_ploc *)

PrimCount == Len(aabbs)
Built == pc = "done" /\ PrimCount >= 1
\* the positions of nodes holding leaves, and holding internal nodes
LeafPositions == { p \in 0..(Len(nodes) - 1) : At(nodes, p).index < 0 }
InternalPositions == { p \in 0..(Len(nodes) - 1) : At(nodes, p).index >= 0 }
\* the union of the input boxes
RECURSIVE UnionOfInputs(_)
UnionOfInputs(k) ==
    IF k = 1 THEN aabbs[1] ELSE Union(UnionOfInputs(k - 1), aabbs[k])

\* C1: the returned array holds exactly N leaves, their -index - 1 are a
\* permutation of [0, N), and each leaf carries the AABB of its primitive,
\* for every scheduler and worker count
C1_LeavesArePermutation ==
    Built =>
        /\ Cardinality(LeafPositions) = PrimCount
        /\ { -At(nodes, p).index - 1 : p \in LeafPositions } = 0..(PrimCount - 1)
        /\ \A p \in LeafPositions :
             LET prim == -At(nodes, p).index - 1
             IN  prim < PrimCount => At(nodes, p).aabb = At(aabbs, prim)

\* C2: 2N - 1 nodes are returned (one leaf with index -1 when N = 1), N - 1
\* pairs are emitted over the merge loop, insert_index is 1 when the loop
\* exits, and the surviving root is stored at position 0
C2_NodeCountAndRoot ==
    /\ Built =>
         /\ Len(nodes) = 2 * PrimCount - 1
         /\ emitted = PrimCount - 1
         /\ insert_index = 0
         /\ At(nodes, 0) = At(current_nodes, 0)
         /\ PrimCount = 1 => At(nodes, 0).index = -1
    /\ (pc = "merge" /\ Len(current_nodes) = 1 /\ PrimCount >= 2) => insert_index = 1
    /\ pc # "panic"
C2_Witness == Built /\ PrimCount = 3 /\ emitted = 2 /\ threads = 3

\* C3: every internal node stored at position p has p < index and
\* index + 1 < |nodes|
C3_ChildrenAbove ==
    Built =>
        \A p \in InternalPositions :
            p < At(nodes, p).index /\ At(nodes, p).index + 1 < Len(nodes)
C3_Witness == Built /\ PrimCount = 3 /\ Cardinality(InternalPositions) = 2

\* C4: the AABB of every internal node is the union of the AABBs of
\* nodes[index] and nodes[index + 1], and so contains both
C4_ParentIsUnion ==
    Built =>
        \A p \in InternalPositions :
            LET n == At(nodes, p)
            IN  n.index + 1 < Len(nodes) =>
                  /\ n.aabb = Union(At(nodes, n.index).aabb, At(nodes, n.index + 1).aabb)
                  /\ Contains(n.aabb, At(nodes, n.index).aabb)
                  /\ Contains(n.aabb, At(nodes, n.index + 1).aabb)
C4_Witness ==
    /\ Built
    /\ PrimCount = 3
    /\ \E p \in InternalPositions :
         At(nodes, p).aabb # At(nodes, At(nodes, p).index).aabb

\* C5: the AABB of nodes[0] is the union of all N input AABBs, for every
\* scheduler and worker count
C5_RootIsUnionOfInputs == Built => At(nodes, 0).aabb = UnionOfInputs(PrimCount)

-----------------------------------------------------------------------------
(* The radix sort (src/src/radix).  A bucket is a sequence of elements; a    *)
(* counts array is a function on the byte values.                            *)

Bytes == 0 .. (Radix - 1)
\* bucket[off .. off + len)
Slice(s, off, len) == SubSeq(s, off + 1, off + len)
\* s with s[off .. off + Len(sub)) replaced by sub
Splice(s, off, sub) ==
    [i \in 1..Len(s) |-> IF i > off /\ i <= off + Len(sub) THEN sub[i - off] ELSE s[i]]
\* slice.swap(i, j)
Swap(s, i, j) == [s EXCEPT ![i + 1] = s[j + 1], ![j + 1] = s[i + 1]]
\* the histogram of the bytes of bucket at level
CountsOf(bucket, level) ==
    [b \in Bytes |-> Cardinality({ i \in 1..Len(bucket) : GetLevel(bucket[i], level) = b })]
AddCounts(c1, c2) == [b \in Bytes |-> c1[b] + c2[b]]

get_prefix_sums(counts) ==
    LET F[b \in Bytes] == IF b = 0 THEN 0 ELSE F[b - 1] + counts[b - 1]
    IN  [b \in Bytes |-> F[b]]

get_end_offsets(counts, prefix_sums) ==
    [b \in Bytes |-> IF b < Radix - 1 THEN prefix_sums[b + 1]
                     ELSE counts[b] + prefix_sums[b]]

RECURSIVE FirstDescent(_, _, _, _)
\* the first loop of get_counts_with_ends: where it breaks (b < last), if it does
FirstDescent(bucket, level, i, last) ==
    IF i = Len(bucket) THEN [broke |-> FALSE, i |-> i, last |-> last]
    ELSE LET b == GetLevel(At(bucket, i), level)
         IN  IF b < last THEN [broke |-> TRUE, i |-> i, last |-> last]
             ELSE FirstDescent(bucket, level, i + 1, b)

\* get_counts_with_ends on a bucket that is not empty: counts, already_sorted,
\* first byte, last byte
get_counts_with_ends(bucket, level) ==
    LET d             == FirstDescent(bucket, level, 0, 0)
        continue_from == IF d.broke THEN d.i + 1 ELSE Len(bucket)
        counts_1      == CountsOf(Slice(bucket, 0, continue_from), level)
        rest          == Slice(bucket, continue_from, Len(bucket) - continue_from)
    IN  IF continue_from = Len(bucket)
        THEN [counts |-> counts_1, sorted |-> ~d.broke,
              first |-> GetLevel(At(bucket, 0), level), last |-> d.last]
        ELSE [counts |-> AddCounts(counts_1, CountsOf(rest, level)), sorted |-> FALSE,
              first |-> GetLevel(At(bucket, 0), level),
              last |-> GetLevel(At(bucket, Len(bucket) - 1), level)]

\* get_counts
get_counts(bucket, level) ==
    IF Len(bucket) = 0 THEN [counts |-> [b \in Bytes |-> 0], sorted |-> TRUE]
    ELSE LET r == get_counts_with_ends(bucket, level)
         IN  [counts |-> r.counts, sorted |-> r.sorted]

\* par_get_counts_with_ends: every chunk sends one message, tagged with its
\* chunk id; complete tells that as many messages are sent as are awaited
par_get_counts_with_ends(bucket, level, s, n) ==
    IF Len(bucket) < ParCountsMin
    THEN [r |-> get_counts_with_ends(bucket, level), complete |-> TRUE]
    ELSE LET chunk_size == (Len(bucket) \div n) \div ChunkDivisor + 1
             len        == DivCeil(Len(bucket), chunk_size)
             chunks     == ParChunksMut(s, Len(bucket), chunk_size)
             msgs       == [k \in 1..Len(chunks) |->
                              get_counts_with_ends(
                                  Slice(bucket, chunks[k].off, chunks[k].len), level)]
             Sent(i)    == { k \in 1..Len(chunks) : chunks[k].id = i }
             boundaries == [i \in 0..(len - 1) |->
                              IF Sent(i) = {} THEN << 0, 0 >>
                              ELSE LET k == CHOOSE k \in Sent(i) : TRUE
                                   IN  << msgs[k].first, msgs[k].last >>]
             Sum[k \in 0..Len(chunks)] ==
                 IF k = 0 THEN [b \in Bytes |-> 0] ELSE AddCounts(Sum[k - 1], msgs[k].counts)
             chunks_sorted == \A k \in 1..Len(chunks) : msgs[k].sorted
             already_sorted ==
                 /\ chunks_sorted
                 /\ \A i \in 1..(len - 1) : ~(boundaries[i][1] < boundaries[i - 1][2])
         IN  [r |-> [counts |-> Sum[Len(chunks)], sorted |-> already_sorted,
                     first |-> boundaries[0][1], last |-> boundaries[len - 1][2]],
              complete |-> Len(chunks) = len]

\* get_tile_counts without the comparison of the bytes at the tile boundaries
get_tile_counts_tiles_only(bucket, tile_size, level, s, n) ==
    LET tile_count == DivCeil(Len(bucket), tile_size)
        TileOf(i)  == LET start == i * tile_size
                          end   == Min2(start + tile_size, Len(bucket))
                      IN  par_get_counts_with_ends(Slice(bucket, start, end - start),
                                                   level, s, n)
    IN  [tile_counts |-> [p \in 1..tile_count |-> TileOf(p - 1).r.counts],
         all_sorted |-> \A p \in 0..(tile_count - 1) : TileOf(p).r.sorted,
         complete |-> TRUE]

\* get_tile_counts: the per-tile counts, all_sorted
get_tile_counts(bucket, tile_size, level, s, n) ==
    LET tile_count == DivCeil(Len(bucket), tile_size)
        calls      == ParMap(s, tile_count, tile_count, n)
        TileOf(i)  == LET start == i * tile_size
                          end   == Min2(start + tile_size, Len(bucket))
                      IN  par_get_counts_with_ends(Slice(bucket, start, end - start),
                                                   level, s, n)
        Written(p) == { k \in 1..Len(calls) : calls[k].pos = p }
        res        == [p \in 0..(tile_count - 1) |->
                         TileOf(calls[CHOOSE k \in Written(p) : TRUE].idx)]
        tiles      == [p \in 0..(tile_count - 1) |-> res[p].r]
        all_sorted ==
            IF tile_count = 1 THEN tiles[0].sorted
            ELSE \A p \in 0..(tile_count - 2) :
                     ~(~tiles[p].sorted \/ ~tiles[p + 1].sorted
                       \/ tiles[p + 1].first < tiles[p].last)
    IN  [tile_counts |-> [p \in 1..tile_count |-> tiles[p - 1].counts],
         all_sorted |-> all_sorted,
         complete |-> \A p \in 0..(tile_count - 1) : res[p].complete]

\* aggregate_tile_counts
aggregate_tile_counts(tile_counts) ==
    LET Sum[k \in 1..Len(tile_counts)] ==
            IF k = 1 THEN tile_counts[1] ELSE AddCounts(Sum[k - 1], tile_counts[k])
    IN  Sum[Len(tile_counts)]

\* is_homogenous_bucket
is_homogenous_bucket(counts) == Cardinality({ b \in Bytes : counts[b] > 0 }) <= 1

\* partition::partition_index: the arrangements of the slice that put the
\* elements satisfying the predicate first (their order is not specified);
\* yes is the set of the elements that satisfy it
PartitionIndex(slice, yes) ==
    LET n    == Len(slice)
        offs == Cardinality({ i \in 1..n : slice[i] \in yes })
    IN  { [i \in 1..n |-> slice[p[i]]] :
            p \in { q \in Perms(n) : \A i \in 1..n : slice[q[i]] \in yes <=> i <= offs } }

RECURSIVE SkaInner(_, _, _, _)
\* for i in prefix_sums[b]..end_offsets[b], on st = [bucket, prefix_sums, finished_map]
SkaInner(st, i, end, level) ==
    IF i >= end THEN st
    ELSE LET new_b == GetLevel(At(st.bucket, i), level)
         IN  SkaInner([st EXCEPT !.bucket = Swap(@, st.prefix_sums[new_b], i),
                                 !.prefix_sums[new_b] = @ + 1],
                      i + 1, end, level)

RECURSIVE SkaFor(_, _, _, _)
\* for b in 0..256
SkaFor(st, b, end_offsets, level) ==
    IF b = Radix THEN st
    ELSE IF st.finished_map[b] THEN SkaFor(st, b + 1, end_offsets, level)
    ELSE LET st1 == IF st.prefix_sums[b] >= end_offsets[b]
                    THEN [st EXCEPT !.finished_map[b] = TRUE] ELSE st
         IN  SkaFor(SkaInner(st1, st1.prefix_sums[b], end_offsets[b], level),
                    b + 1, end_offsets, level)

RECURSIVE SkaWhile(_, _, _, _)
\* while finished != 256; a loop that has not ended after `passes` passes
\* leaves << >>
SkaWhile(st, end_offsets, level, passes) ==
    IF \A b \in Bytes : st.finished_map[b] THEN st.bucket
    ELSE IF passes = 0 THEN << >>
    ELSE SkaWhile(SkaFor(st, 0, end_offsets, level), end_offsets, level, passes - 1)

\* ska_sort: the arrays it may leave in bucket
ska_sort(bucket, prefix_sums, end_offsets, level) ==
    LET Rem(b)        == end_offsets[b] - prefix_sums[b]
        largest       == CHOOSE m \in { Rem(b) : b \in Bytes } :
                             \A b \in Bytes : Rem(b) <= m
        largest_index == IF largest = 0 THEN 0
                         ELSE CHOOSE b \in Bytes :
                                  Rem(b) = largest /\ \A c \in 0..(b - 1) : Rem(c) < largest
        lo            == prefix_sums[largest_index]
        IsLargest(v)  == GetLevel(v, level) = largest_index
        region        == Slice(bucket, lo, end_offsets[largest_index] - lo)
        offs          == Cardinality({ i \in 1..Len(region) : IsLargest(region[i]) })
        finished_map  == [b \in Bytes |-> Rem(b) = 0 \/ b = largest_index]
    IN  IF largest = Len(bucket) THEN { bucket }
        ELSE IF largest > Len(bucket) \div 2
        THEN { SkaWhile([bucket |-> Splice(bucket, lo, part),
                         prefix_sums |-> [prefix_sums EXCEPT ![largest_index] = @ + offs],
                         finished_map |-> finished_map],
                        end_offsets, level, Len(bucket) + 1) :
                 part \in PartitionIndex(region, { v \in SeqOf(region) : IsLargest(v) }) }
        ELSE { SkaWhile([bucket |-> bucket, prefix_sums |-> prefix_sums,
                         finished_map |-> finished_map],
                        end_offsets, level, Len(bucket) + 1) }

RECURSIVE GenerateOutboundsLoop(_, _, _)
\* the loop of generate_outbounds; an edge is [dst, init, off, len], its slice
\* being bucket[off .. off + len)
GenerateOutboundsLoop(g, local_counts, global_counts) ==
    LET last_tile == Len(local_counts) - 1
    IN  IF g.global_country = Radix - 1 /\ g.local_country = Radix - 1
           /\ g.local_bucket = last_tile
        THEN g.outbounds
        ELSE LET step == Min2(g.target_global_dist, g.target_local_dist)
                 g1 == IF step # 0
                       THEN [g EXCEPT !.off = @ + step,
                                      !.outbounds =
                                          IF g.local_country # g.global_country
                                          THEN Append(@, [dst |-> g.local_country,
                                                          init |-> g.global_country,
                                                          off |-> g.off, len |-> step])
                                          ELSE @]
                       ELSE g
                 g2 == IF step = g.target_global_dist /\ g.global_country < Radix - 1
                       THEN [g1 EXCEPT !.global_country = @ + 1,
                                       !.target_global_dist =
                                           global_counts[g.global_country + 1]]
                       ELSE [g1 EXCEPT !.target_global_dist = @ - step]
                 g3 == IF step = g.target_local_dist
                          /\ ~(g.local_bucket = last_tile /\ g.local_country = Radix - 1)
                       THEN IF g.local_country < Radix - 1
                            THEN [g2 EXCEPT !.local_country = @ + 1,
                                            !.target_local_dist =
                                                At(local_counts, g.local_bucket)[g.local_country + 1]]
                            ELSE [g2 EXCEPT !.local_bucket = @ + 1,
                                            !.local_country = 0,
                                            !.target_local_dist =
                                                At(local_counts, g.local_bucket + 1)[0]]
                       ELSE [g2 EXCEPT !.target_local_dist = @ - step]
             IN  GenerateOutboundsLoop(g3, local_counts, global_counts)

\* generate_outbounds with no edge for the data of the last country
generate_outbounds_but_last(local_counts, global_counts) ==
    SelectSeq(GenerateOutboundsLoop([outbounds |-> << >>, off |-> 0, local_bucket |-> 0,
                                     local_country |-> 0, global_country |-> 0,
                                     target_global_dist |-> global_counts[0],
                                     target_local_dist |-> At(local_counts, 0)[0]],
                                    local_counts, global_counts),
              LAMBDA e : e.dst # Radix - 1)

\* generate_outbounds
generate_outbounds(local_counts, global_counts) ==
    GenerateOutboundsLoop([outbounds |-> << >>, off |-> 0, local_bucket |-> 0,
                           local_country |-> 0, global_country |-> 0,
                           target_global_dist |-> global_counts[0],
                           target_local_dist |-> At(local_counts, 0)[0]],
                          local_counts, global_counts)

Last(q) == q[Len(q)]
Front(q) == SubSeq(q, 1, Len(q) - 1)

RECURSIVE PairUpWhole(_, _, _, _)
\* step 3 of list_operations without the split of the longer slice
PairUpWhole(outbounds, inbounds, current_outbounds, operations) ==
    IF inbounds = << >>
    THEN [outbounds |-> outbounds \cup SeqOf(current_outbounds),
          operations |-> operations]
    ELSE IF current_outbounds = << >>
    THEN [outbounds |-> outbounds \cup SeqOf(inbounds), operations |-> operations]
    ELSE PairUpWhole(outbounds, Front(inbounds), Front(current_outbounds),
                     Append(operations, << Last(inbounds), Last(current_outbounds) >>))

RECURSIVE PairUp(_, _, _, _)
\* step 3 of list_operations: inbounds and current_outbounds are popped from
\* their ends; an operation is << inbound edge, outbound edge >>
PairUp(outbounds, inbounds, current_outbounds, operations) ==
    IF inbounds = << >>
    THEN [outbounds |-> outbounds \cup SeqOf(current_outbounds),
          operations |-> operations]
    ELSE IF current_outbounds = << >>
    THEN [outbounds |-> outbounds \cup SeqOf(inbounds), operations |-> operations]
    ELSE LET i == Last(inbounds)
             o == Last(current_outbounds)
         IN  IF i.len = o.len
             THEN PairUp(outbounds, Front(inbounds), Front(current_outbounds),
                         Append(operations, << i, o >>))
             ELSE IF i.len < o.len
             THEN PairUp(outbounds, Front(inbounds),
                         Append(Front(current_outbounds),
                                [o EXCEPT !.off = @ + i.len, !.len = @ - i.len]),
                         Append(operations, << i, [o EXCEPT !.len = i.len] >>))
             ELSE PairUp(outbounds,
                         Append(Front(inbounds),
                                [i EXCEPT !.off = @ + o.len, !.len = @ - o.len]),
                         Front(current_outbounds),
                         Append(operations, << [i EXCEPT !.len = o.len], o >>))

\* list_operations: outbounds is the set of outstanding edges (partition_index
\* leaves them in an order that is not specified); the results it may give
list_operations(country, outbounds) ==
    LET current == { e \in outbounds : e.init = country }
        others  == outbounds \ current
        inb     == { e \in others : e.dst = country }
    IN  { PairUp(others \ inb, inbounds, current_outbounds, << >>) :
            inbounds \in PermSeqs(inb), current_outbounds \in PermSeqs(current) }

RECURSIVE ListAllOperations(_, _)
\* for country in 0..256: list_operations, on the set of possible
\* [outbounds, operations]
ListAllOperations(country, S) ==
    IF country = Radix THEN S
    ELSE ListAllOperations(country + 1,
             UNION { { [outbounds |-> r.outbounds,
                        operations |-> x.operations \o r.operations] :
                         r \in list_operations(country, x.outbounds) } : x \in S })

\* i.slice.swap_with_slice(o.slice)
SwapWithSlice(bucket, op) ==
    Splice(Splice(bucket, op[1].off, Slice(bucket, op[2].off, op[2].len)),
           op[2].off, Slice(bucket, op[1].off, op[1].len))

RECURSIVE SwapChunk(_, _, _, _)
\* the swap closure on the operations [off, off + len) of the list
SwapChunk(bucket, operations, off, len) ==
    IF len = 0 THEN bucket
    ELSE SwapChunk(SwapWithSlice(bucket, At(operations, off)), operations, off + 1,
                   len - 1)

RECURSIVE ExecuteOperations(_, _, _, _)
\* par_chunks_mut(&mut operations, swap closure, chunk_size)
ExecuteOperations(bucket, operations, chunks, k) ==
    IF k > Len(chunks) THEN bucket
    ELSE ExecuteOperations(SwapChunk(bucket, operations, chunks[k].off, chunks[k].len),
                           operations, chunks, k + 1)

ResidualEdgesDropped(operations) == {}
\* the edges created for data swapped somewhere other than its destination
ResidualEdges(operations) ==
    { [dst |-> op[2].dst, init |-> op[1].init, off |-> op[1].off, len |-> op[1].len] :
        op \in { q \in SeqOf(operations) : q[2].dst # q[1].init } }

RECURSIVE RegionsLoop(_, _, _, _)
\* the loop of regions_sort: the arrays it may leave in bucket
RegionsLoop(bucket, outbounds, s, n) ==
    IF outbounds = {} THEN { bucket }
    ELSE UNION { IF x.operations = << >> THEN { bucket }
                 ELSE RegionsLoop(
                          ExecuteOperations(bucket, x.operations,
                              ParChunksMut(s, Len(x.operations),
                                           Len(x.operations) \div n + 1), 1),
                          x.outbounds \cup ResidualEdges(x.operations), s, n) :
                 x \in ListAllOperations(0, { [outbounds |-> outbounds,
                                               operations |-> << >>] }) }

RECURSIVE SkaTiles(_, _, _, _, _)
\* par_chunks_mut(bucket, ska_sort closure, tile_size): the arrays the calls on
\* the chunks may leave
SkaTiles(B, chunks, k, tile_counts, level) ==
    IF k > Len(chunks) THEN B
    ELSE LET c == chunks[k]
             counts      == At(tile_counts, c.id)
             prefix_sums == get_prefix_sums(counts)
             end_offsets == get_end_offsets(counts, prefix_sums)
         IN  SkaTiles(UNION { { Splice(bucket, c.off, t) :
                                  t \in ska_sort(Slice(bucket, c.off, c.len), prefix_sums,
                                                 end_offsets, level) } : bucket \in B },
                      chunks, k + 1, tile_counts, level)

\* regions_sort: the arrays it may leave in bucket
regions_sort(bucket, counts, tile_counts, tile_size, level, s, n) ==
    UNION { RegionsLoop(b, SeqOf(generate_outbounds(tile_counts, counts)), s, n) :
              b \in SkaTiles({ bucket }, ParChunksMut(s, Len(bucket), tile_size), 1,
                             tile_counts, level) }

\* director with chunks that start one element early
director_one_early(counts, level, recursion_depth) ==
    LET prefix_sums == get_prefix_sums(counts)
    IN  { [off |-> Max2(prefix_sums[b] - 1, 0), len |-> counts[b], level |-> level,
           depth |-> recursion_depth + 1] : b \in { c \in Bytes : counts[c] > 1 } }

\* director: the calls of handle_chunk it makes through par_map, one for each
\* chunk of bucket.arbitrary_chunks_mut(counts), as [off, len, level, depth];
\* a call on a chunk of at most one element returns at once and is left out
director(counts, level, recursion_depth) ==
    LET prefix_sums == get_prefix_sums(counts)
    IN  { [off |-> prefix_sums[b], len |-> counts[b], level |-> level,
           depth |-> recursion_depth + 1] : b \in { c \in Bytes : counts[c] > 1 } }

\* the histogram of a chunk large enough for tiles: get_tile_counts and
\* aggregate_tile_counts
TiledCounts(tc) ==
    [counts |-> aggregate_tile_counts(tc.tile_counts), already_sorted |-> tc.all_sorted,
     tile_counts |-> tc.tile_counts, complete |-> tc.complete]

\* the histogram of a smaller chunk: get_counts, the chunk as its one tile
PlainCounts(gc) ==
    [counts |-> gc.counts, already_sorted |-> gc.sorted,
     tile_counts |-> << gc.counts >>, complete |-> TRUE]

\* handle_chunk from its histogram h on
HandleCounted(chunk, h, use_tiles, tile_size, level, s, n, recursion_depth) ==
    LET calls == IF level # 0 THEN director(h.counts, level - 1, recursion_depth)
                 ELSE {}
    IN  IF ~h.complete
        THEN { [chunk |-> chunk, calls |-> {}, path |-> "blocked", complete |-> FALSE] }
        ELSE IF h.already_sorted
                \/ (Len(chunk) >= HomogenousMin /\ is_homogenous_bucket(h.counts))
        THEN { [chunk |-> chunk, calls |-> calls,
                path |-> IF use_tiles THEN "tiles, already sorted"
                         ELSE "counts, already sorted",
                complete |-> TRUE] }
        ELSE { [chunk |-> c, calls |-> calls,
                path |-> IF use_tiles THEN "tiles, regions_sort"
                         ELSE "counts, regions_sort",
                complete |-> TRUE] :
                 c \in regions_sort(chunk, h.counts, h.tile_counts, tile_size, level,
                                    s, n) }

\* handle_chunk up to its call of director: the results it may give, as
\* [chunk, calls, path, complete]
handle_chunk(chunk, level, s, n, recursion_depth) ==
    IF Len(chunk) <= 1
    THEN { [chunk |-> chunk, calls |-> {}, path |-> "single", complete |-> TRUE] }
    ELSE IF Len(chunk) <= CmpMax
    THEN { [chunk |-> c, calls |-> {}, path |-> "comparative", complete |-> TRUE] :
             c \in ComparativeSort(chunk, level) }
    ELSE IF Len(chunk) >= TileMin /\ n > 1
    THEN HandleCounted(chunk,
                       TiledCounts(get_tile_counts(chunk,
                                       Max2(TileSizeMin, DivCeil(Len(chunk), n)),
                                       level, s, n)),
                       TRUE, Max2(TileSizeMin, DivCeil(Len(chunk), n)), level, s, n,
                       recursion_depth)
    ELSE HandleCounted(chunk, PlainCounts(get_counts(chunk, level)), FALSE, Len(chunk),
                       level, s, n, recursion_depth)

-----------------------------------------------------------------------------
(* sort as a state machine: the calls of handle_chunk that par_map has       *)
(* outstanding work on disjoint chunks of data and run in any order          *)

\* the keys: SortLevels bytes, key[level + 1] the byte of `level`
Keys == [1..SortLevels -> Bytes]
\* the slices handed to sort: element i carries its position as payload, which
\* get_level does not read
SortInputs ==
    UNION { { [i \in 1..k |-> [key |-> ks[i], id |-> i]] : ks \in [1..k -> Keys] } :
              k \in 0..MaxLen }

BuildIdle ==
    /\ aabbs = << >>
    /\ current_nodes = << >>
    /\ pending = {}
    /\ local_aabbs = << >>
    /\ total_aabb = EmptyAabb
    /\ insert_index = 0
    /\ merge = << >>
    /\ depth = 0
    /\ emitted = 0

InitSort ==
    /\ pc = "sort: start"
    /\ sched \in Schedulers
    /\ \E n \in 1..MaxThreads : threads = CurrentNumThreads(sched, n)
    /\ data \in SortInputs
    /\ input = data
    /\ tasks = {}
    /\ paths = {}
    /\ BuildIdle
    /\ nodes = << >>
    /\ TravIdle
    /\ CallIdle

\* sort on at most one element: by definition, this is already sorted
SortReturn ==
    /\ pc = "sort: start"
    /\ Len(data) <= 1
    /\ pc' = "sort: done"
    /\ UNCHANGED << sched, threads, data, input, tasks, paths >>

\* sort: handle_chunk(data, T::LEVELS - 1, threads, 0)
SortCall ==
    /\ pc = "sort: start"
    /\ Len(data) > 1
    /\ tasks' = { [off |-> 0, len |-> Len(data), level |-> SortLevels - 1, depth |-> 0] }
    /\ pc' = "sort: chunks"
    /\ UNCHANGED << sched, threads, data, input, paths >>

\* one call of handle_chunk, with the calls its director makes
HandleChunk ==
    /\ pc = "sort: chunks"
    /\ \E t \in tasks :
         \E r \in handle_chunk(Slice(data, t.off, t.len), t.level, sched, threads,
                               t.depth) :
             /\ data' = Splice(data, t.off, r.chunk)
             /\ tasks' = (tasks \ { t })
                         \cup { [c EXCEPT !.off = @ + t.off] : c \in r.calls }
             /\ paths' = paths \cup { r.path }
             /\ pc' = IF r.complete THEN "sort: chunks" ELSE "sort: blocked"
    /\ UNCHANGED << sched, threads, input >>

\* every call has returned: sort returns
SortDone ==
    /\ pc = "sort: chunks"
    /\ tasks = {}
    /\ pc' = "sort: done"
    /\ UNCHANGED << sched, threads, data, input, tasks, paths >>

\* what sort leaves alone
sortFrame == << aabbs, current_nodes, pending, local_aabbs, total_aabb, nodes,
                insert_index, merge, depth, emitted, travVars, callVars >>

NextSort ==
    \/ SortReturn /\ UNCHANGED sortFrame
    \/ SortCall /\ UNCHANGED sortFrame
    \/ HandleChunk /\ UNCHANGED sortFrame
    \/ SortDone /\ UNCHANGED sortFrame

SpecSort == InitSort /\ [][NextSort]_vars

-----------------------------------------------------------------------------
(* Properties of sort *)

SortFinished == pc = "sort: done"
\* s is a rearrangement of q (the elements of the inputs are pairwise distinct)
IsPermutationOf(s, q) == Len(s) = Len(q) /\ SeqOf(s) = SeqOf(q)
\* the key of e as a number: the byte of level SortLevels - 1 the most
\* significant, the byte of level 0 the least
KeyValue(e) ==
    LET F[l \in 0..SortLevels] ==
            IF l = 0 THEN 0 ELSE F[l - 1] + GetLevel(e, l - 1) * Radix ^ (l - 1)
    IN  F[SortLevels]
\* s is non-decreasing in the order that compares the bytes from level
\* SortLevels - 1 down to level 0
NonDecreasing(s) == \A i \in 1..(Len(s) - 1) : KeyValue(s[i]) <= KeyValue(s[i + 1])

\* C7: after sort the array is a permutation of the input and non-decreasing
\* in the key order, whichever path handle_chunk takes (comparative fallback,
\* single histogram, tiled counting), for every length and thread count; no
\* call blocks
C7_SortedPermutation ==
    /\ SortFinished => IsPermutationOf(data, input) /\ NonDecreasing(data)
    /\ pc # "sort: blocked"
C7_Witness ==
    /\ SortFinished
    /\ threads > 1
    /\ "tiles, regions_sort" \in paths
    /\ "comparative" \in paths
    /\ ~NonDecreasing(input)

-----------------------------------------------------------------------------
(* Rays: src/src/ray.rs, and Aabb::intersect_ray of src/src/aabb.rs.  Origins,
   directions and box corners are small integers and a direction component is
   -1, +0.0 or 1, so every product below is exact in f32 *)

\* safe_inverse: 1.0 / x, and signum(x) / EPSILON for |x| <= EPSILON
safe_inverse(x) == IF x = 0 THEN InvEpsilon ELSE x

\* Ray::new
RayNew(origin, direction, min, max) ==
    [origin |-> origin, direction |-> direction,
     inv_direction |-> [i \in 1..3 |-> safe_inverse(direction[i])],
     tmin |-> min, tmax |-> max]

\* t1 and t2 of intersect_ray
SlabT(corner, r) == [i \in 1..3 |-> (corner[i] - r.origin[i]) * r.inv_direction[i]]

\* tmin_n of intersect_ray
SlabEntry(a, r) ==
    LET tmin == VMin(SlabT(a.min, r), SlabT(a.max, r))
    IN  Max2(tmin[1], Max2(tmin[2], tmin[3]))

\* tmax_n of intersect_ray
SlabExit(a, r) ==
    LET tmax == VMax(SlabT(a.min, r), SlabT(a.max, r))
    IN  Min2(tmax[1], Min2(tmax[2], tmax[3]))

\* Aabb::intersect_ray
IntersectRay(a, r) ==
    IF SlabExit(a, r) >= SlabEntry(a, r) /\ SlabExit(a, r) >= 0
    THEN SlabEntry(a, r)
    ELSE Infinity

-----------------------------------------------------------------------------
(* Inputs of the traversal: every Bvh2 over up to MaxPrims leaves in which the
   root is node 0, a parent holds the union of its two children and the
   children are adjacent, at index and index + 1, after their parent *)

\* the boxes of the leaves: two that touch and one that overlaps both
TravBoxes ==
    { [min |-> << 0, 0, 0 >>, max |-> << 2, 2, 2 >>],
      [min |-> << 2, 0, 0 >>, max |-> << 4, 2, 2 >>],
      [min |-> << 1, 0, 0 >>, max |-> << 3, 2, 2 >>] }

\* the binary trees over a run of leaves, first leaf has primitive id first
RECURSIVE Subtrees(_, _)
Subtrees(leaves, first) ==
    IF Len(leaves) = 1
    THEN { [aabb |-> leaves[1], prim |-> first, kids |-> << >>] }
    ELSE UNION { { [aabb |-> Union(l.aabb, r.aabb), prim |-> -1, kids |-> << l, r >>] :
                     l \in Subtrees(SubSeq(leaves, 1, k), first),
                     r \in Subtrees(SubSeq(leaves, k + 1, Len(leaves)), first + k) } :
                 k \in 1..(Len(leaves) - 1) }

\* the Bvh2 of a tree: Bvh2Node per tree node, children appended as a pair
RECURSIVE Layout(_, _)
Layout(arr, queue) ==
    IF queue = << >> THEN arr
    ELSE LET h == Head(queue)
         IN  IF h.t.kids = << >>
             THEN Layout(SetAt(arr, h.pos, InitNode(h.t.prim, h.t.aabb)), Tail(queue))
             ELSE Layout(SetAt(arr, h.pos, [aabb |-> h.t.aabb, index |-> Len(arr)])
                             \o << DefaultNode, DefaultNode >>,
                         Tail(queue) \o << [t |-> h.t.kids[1], pos |-> Len(arr)],
                                           [t |-> h.t.kids[2], pos |-> Len(arr) + 1] >>)

Bvhs ==
    { << >> } \cup
    UNION { UNION { { Layout(<< DefaultNode >>, << [t |-> t, pos |-> 0] >>) :
                        t \in Subtrees(leaves, 0) } :
                    leaves \in [1..n -> TravBoxes] } :
            n \in 1..MaxPrims }

\* the rays: from either side of the boxes, from inside one, from below
Origins == { << -1, 1, 1 >>, << 1, 1, 1 >>, << 5, 1, 1 >>, << 1, -1, 1 >> }
Directions == { << 1, 0, 0 >>, << -1, 0, 0 >>, << 0, 1, 0 >>, << 1, 1, 0 >> }
\* Ray::new_inf, and Ray::new with a finite tmax
Rays ==
    { RayNew(o, d, 0, m) : o \in Origins, d \in Directions, m \in { Infinity, 2 } }

\* -(node.index + 1)
PrimitiveId(index) == -(index + 1)

\* the leaves of a Bvh2, as [id, aabb]
Primitives(bvh) ==
    { [id |-> PrimitiveId(bvh[i].index), aabb |-> bvh[i].aabb] :
        i \in { j \in 1..Len(bvh) : bvh[j].index < 0 } }

\* what intersection_fn may return for a primitive whose box is a: a miss, or
\* a distance that is not below the entry distance of the box (the entry
\* itself, the first distance from ray.tmin on, or one beyond the exit)
HitDistances(a, r) ==
    { Infinity } \cup
    IF IntersectRay(a, r) = Infinity THEN {}
    ELSE { SlabEntry(a, r), Max2(SlabEntry(a, r), r.tmin), SlabExit(a, r) + 1 }

\* the sequences that take their i-th element from the i-th set
RECURSIVE SeqProduct(_)
SeqProduct(sets) ==
    IF sets = << >> THEN { << >> }
    ELSE { << h >> \o t : h \in Head(sets), t \in SeqProduct(Tail(sets)) }

\* the intersection functions: a distance for every primitive id
IntersectionFns(bvh, r) ==
    LET prims == Primitives(bvh)
        box(i) == (CHOOSE p \in prims : p.id = i).aabb
    IN  { [i \in 0..(Cardinality(prims) - 1) |-> q[i + 1]] :
            q \in SeqProduct([i \in 1..Cardinality(prims) |->
                                 HitDistances(box(i - 1), r)]) }

-----------------------------------------------------------------------------
(* Bvh2::new_traversal and Bvh2::traverse (src/src/bvh.rs), driven as in
   src/examples/basic.rs: traverse is called again for as long as it returns
   true.  One action per iteration of the while let loop *)

\* a node whose box is also entered behind the origin is dropped
DiscardBehindOrigin(entry, tmax) == entry >= tmax \/ entry <= 0

\* node.aabb.intersect_ray(&state.ray) >= state.ray.tmax
Discard(entry, tmax) == entry >= tmax

\* a primitive at ray.tmax counts as a hit
IsHitOrTie(t, tmax) == t <= tmax

\* t < state.ray.tmax
IsHit(t, tmax) == t < tmax

\* a hit that leaves state.ray.tmax alone
TmaxKept(t, tmax) == tmax

\* state.ray.tmax = t
TmaxAfterHit(t, tmax) == t

\* the index check of self.0[current_node_index as usize]
InBounds(bvh, i) == i < Len(bvh)

\* the rays a traversal state is re-initialised with
ReinitRays == { RayNew(<< -1, 1, 1 >>, << 1, 0, 0 >>, 0, Infinity) }

\* the stack of Traversal::reinit
ReinitStack(bvh) == << 0 >>

\* the stack of new_traversal
NewStack(bvh) == IF bvh # << >> THEN << 0 >> ELSE << >>

InitTrav ==
    /\ pc = "trav: call"
    /\ sched = "Sequential"
    /\ threads = 1
    /\ aabbs = << >>
    /\ BuildIdle
    /\ SortIdle
    /\ CallIdle
    /\ nodes \in Bvhs
    /\ ray \in Rays
    /\ tmax0 = ray.tmax
    /\ stack = NewStack(nodes)
    /\ closest_t = F32_MAX
    /\ closest_id = U32Max
    /\ prim_t \in IntersectionFns(nodes, ray)
    /\ hits = << >>
    /\ invoked = << >>
    /\ later = 0
    /\ pushed = NewStack(nodes)

\* what traverse leaves alone
travFrame == << sched, threads, aabbs, current_nodes, pending, local_aabbs, total_aabb,
                nodes, insert_index, merge, depth, emitted, sortVars, callVars, prim_t, tmax0 >>

\* the caller calls traverse: the first time, and after every true
TraverseCall ==
    /\ pc = "trav: call"
    /\ pc' = "trav: loop"
    /\ UNCHANGED << stack, ray, closest_t, closest_id, hits, invoked, later, pushed >>
    /\ UNCHANGED travFrame

\* the popped node is not entered before ray.tmax: continue
TraverseSkip ==
    /\ pc = "trav: loop"
    /\ stack # << >>
    /\ InBounds(nodes, Last(stack))
    /\ Discard(IntersectRay(At(nodes, Last(stack)).aabb, ray), ray.tmax)
    /\ stack' = Front(stack)
    /\ UNCHANGED << pc, ray, closest_t, closest_id, hits, invoked, later, pushed >>
    /\ UNCHANGED travFrame

\* the popped node is a leaf and its primitive is hit before ray.tmax: return true
TraverseLeafHit ==
    /\ pc = "trav: loop"
    /\ stack # << >>
    /\ InBounds(nodes, Last(stack))
    /\ LET node == At(nodes, Last(stack))
           primitive_id == PrimitiveId(node.index)
           t == prim_t[primitive_id]
       IN  /\ ~Discard(IntersectRay(node.aabb, ray), ray.tmax)
           /\ node.index < 0
           /\ IsHit(t, ray.tmax)
           /\ invoked' = Append(invoked, primitive_id)
           /\ closest_id' = primitive_id
           /\ closest_t' = t
           /\ ray' = [ray EXCEPT !.tmax = TmaxAfterHit(t, ray.tmax)]
           /\ hits' = Append(hits, [t |-> t, id |-> primitive_id])
    /\ stack' = Front(stack)
    /\ pc' = "trav: call"
    /\ UNCHANGED << later, pushed >>
    /\ UNCHANGED travFrame

\* the popped node is a leaf and its primitive is not hit before ray.tmax
TraverseLeafMiss ==
    /\ pc = "trav: loop"
    /\ stack # << >>
    /\ InBounds(nodes, Last(stack))
    /\ LET node == At(nodes, Last(stack))
           primitive_id == PrimitiveId(node.index)
       IN  /\ ~Discard(IntersectRay(node.aabb, ray), ray.tmax)
           /\ node.index < 0
           /\ ~IsHit(prim_t[primitive_id], ray.tmax)
           /\ invoked' = Append(invoked, primitive_id)
    /\ stack' = Front(stack)
    /\ UNCHANGED << pc, ray, closest_t, closest_id, hits, later, pushed >>
    /\ UNCHANGED travFrame

\* the popped node is an internal node: its first child is pushed twice
TraversePushFirstTwice ==
    /\ pc = "trav: loop"
    /\ stack # << >>
    /\ InBounds(nodes, Last(stack))
    /\ LET node == At(nodes, Last(stack))
       IN  /\ ~Discard(IntersectRay(node.aabb, ray), ray.tmax)
           /\ node.index >= 0
           /\ stack' = Front(stack) \o << node.index, node.index >>
           /\ pushed' = pushed \o << node.index, node.index >>
    /\ UNCHANGED << pc, ray, closest_t, closest_id, hits, invoked, later >>
    /\ UNCHANGED travFrame

\* the popped node is an internal node: push both children
TraversePush ==
    /\ pc = "trav: loop"
    /\ stack # << >>
    /\ InBounds(nodes, Last(stack))
    /\ LET node == At(nodes, Last(stack))
       IN  /\ ~Discard(IntersectRay(node.aabb, ray), ray.tmax)
           /\ node.index >= 0
           /\ stack' = Front(stack) \o << node.index, node.index + 1 >>
           /\ pushed' = pushed \o << node.index, node.index + 1 >>
    /\ UNCHANGED << pc, ray, closest_t, closest_id, hits, invoked, later >>
    /\ UNCHANGED travFrame

\* the stack is empty: return false, and the caller's loop ends
TraverseReturnFalse ==
    /\ pc = "trav: loop"
    /\ stack = << >>
    /\ pc' = "trav: done"
    /\ UNCHANGED << stack, ray, closest_t, closest_id, hits, invoked, later, pushed >>
    /\ UNCHANGED travFrame

\* traverse is called once more on the state it has returned false on
TraverseAgain ==
    /\ pc = "trav: done"
    /\ later < MaxLaterCalls
    /\ later' = later + 1
    /\ pc' = "trav: loop"
    /\ UNCHANGED << stack, ray, closest_t, closest_id, hits, invoked, pushed >>
    /\ UNCHANGED travFrame

\* the popped index is not an index of the node array: self.0[..] panics
TraversePanic ==
    /\ pc = "trav: loop"
    /\ stack # << >>
    /\ ~InBounds(nodes, Last(stack))
    /\ stack' = Front(stack)
    /\ pc' = "trav: panic"
    /\ UNCHANGED << ray, closest_t, closest_id, hits, invoked, later, pushed >>
    /\ UNCHANGED travFrame

\* when traverse has returned false the caller takes the state for another
\* ray: Traversal::reinit, with closest_t and closest_id set as at the start
Reinit ==
    /\ pc = "trav: done"
    /\ later = 0
    /\ \E r \in ReinitRays :
         /\ ray' = r
         /\ tmax0' = r.tmax
         /\ prim_t' \in IntersectionFns(nodes, r)
    /\ stack' = ReinitStack(nodes)
    /\ closest_t' = F32_MAX
    /\ closest_id' = U32Max
    /\ hits' = << >>
    /\ invoked' = << >>
    /\ later' = 0
    /\ pushed' = ReinitStack(nodes)
    /\ pc' = "trav: call"
    /\ UNCHANGED << sched, threads, aabbs, current_nodes, pending, local_aabbs, total_aabb,
                    nodes, insert_index, merge, depth, emitted, sortVars, callVars >>

NextTrav ==
    \/ TraverseCall
    \/ TraverseSkip
    \/ TraverseLeafHit
    \/ TraverseLeafMiss
    \/ TraversePush
    \/ TraverseReturnFalse
    \/ TraverseAgain
    \/ TraversePanic
    \/ Reinit

SpecTrav == InitTrav /\ [][NextTrav]_vars

-----------------------------------------------------------------------------
(* Properties of the traversal *)

TravFinished == pc = "trav: done"

\* the distances intersection_fn reports over all primitives
AllDistances == { prim_t[i] : i \in DOMAIN prim_t }

\* the brute-force closest hit: the least distance over all primitives
BruteForceMin ==
    IF AllDistances = {} THEN Infinity
    ELSE CHOOSE t \in AllDistances : \A u \in AllDistances : t <= u

\* C9: once traverse has returned false, a primitive has been reported iff the
\* brute-force minimum of intersection_fn over all primitives is below the
\* initial ray.tmax; closest_t is then that minimum and closest_id a primitive
\* at that distance; otherwise closest_t, closest_id and ray.tmax are as they
\* were at the start
C9_ClosestHitIsBruteForce ==
    TravFinished =>
        IF BruteForceMin < tmax0
        THEN /\ hits # << >>
             /\ closest_t = BruteForceMin
             /\ closest_id \in DOMAIN prim_t
             /\ prim_t[closest_id] = BruteForceMin
        ELSE /\ hits = << >>
             /\ closest_t = F32_MAX
             /\ closest_id = U32Max
             /\ ray.tmax = tmax0
C9_Witness ==
    /\ TravFinished
    /\ Len(nodes) = 2 * MaxPrims - 1
    /\ Len(hits) >= 2
    /\ Len(invoked) > Len(hits)
    /\ tmax0 < Infinity
    /\ closest_t = BruteForceMin

\* C10: a popped node is dropped with nothing done only if its entry distance
\* is at or beyond ray.tmax as it is when the node is popped; a leaf popped
\* with a nearer entry has intersection_fn called with its primitive id, and
\* an internal node popped with a nearer entry has both its children pushed
C10_DiscardOnlyBeyondTmax ==
    [][ (pc = "trav: loop" /\ stack # << >> /\ InBounds(nodes, Last(stack))) =>
          LET node == At(nodes, Last(stack))
              entry == IntersectRay(node.aabb, ray)
          IN  /\ (stack' = Front(stack) /\ invoked' = invoked) => entry >= ray.tmax
              /\ (entry < ray.tmax /\ node.index < 0) =>
                     invoked' = Append(invoked, -(node.index + 1))
              /\ (entry < ray.tmax /\ node.index >= 0) =>
                     stack' = Front(stack) \o << node.index, node.index + 1 >>
      ]_vars
C10_Witness ==
    /\ TravFinished
    /\ Len(nodes) = 2 * MaxPrims - 1
    /\ Len(invoked) = 2
    /\ Len(hits) = 1
    /\ ray.tmax < tmax0
    /\ tmax0 = Infinity

\* C11: a call of traverse returns true exactly at a call of intersection_fn
\* that gives a distance below ray.tmax, and closest_t and ray.tmax are then
\* that distance and closest_id that primitive; the distances of successive
\* true returns decrease strictly; traverse returns false only on an empty
\* stack, and a call made after that returns false again with no call of
\* intersection_fn and nothing changed
C11_ResumableReturns ==
    /\ [](\A i \in 1..(Len(hits) - 1) : hits[i + 1].t < hits[i].t)
    /\ [](later > 0 => (stack = << >> /\ pc \in { "trav: loop", "trav: done" }))
    /\ [][ /\ (pc = "trav: loop" /\ pc' = "trav: call") =>
                \E p \in DOMAIN prim_t :
                    /\ invoked' = Append(invoked, p)
                    /\ prim_t[p] < ray.tmax
                    /\ closest_t' = prim_t[p] /\ ray'.tmax = prim_t[p]
                    /\ closest_id' = p
                    /\ hits' = Append(hits, [t |-> closest_t', id |-> closest_id'])
           /\ (Len(invoked') > Len(invoked) /\ prim_t[Last(invoked')] < ray.tmax) =>
                (pc = "trav: loop" /\ pc' = "trav: call")
           /\ (pc = "trav: loop" /\ pc' = "trav: done") =>
                (stack = << >> /\ UNCHANGED << invoked, hits, closest_t, closest_id, ray >>)
           /\ later > 0 => UNCHANGED << stack, invoked, hits, closest_t, closest_id, ray >>
       ]_vars
C11_Witness ==
    /\ TravFinished
    /\ later = MaxLaterCalls
    /\ Len(hits) = MaxPrims
    /\ Len(invoked) = MaxPrims

\* C12: on an empty Bvh2, traverse reads no node and calls intersection_fn for
\* no primitive, whether the state comes from new_traversal or from reinit
C12_EmptyBvhIsNoOp ==
    nodes = << >> => (pc # "trav: panic" /\ invoked = << >> /\ hits = << >>)
\* an empty Bvh2 whose state comes from new_traversal has been traversed to the
\* end and the state is taken again with reinit
C12_Witness ==
    /\ nodes = << >>
    /\ pc = "trav: call"
    /\ stack = << 0 >>

-----------------------------------------------------------------------------
(* The executors on their own: one call of par_chunks_mut or of par_map on a
   slice of call_args.len elements under the scheduler call_args.s, with
   call_args.k as chunk_size or chunks; call_log is the sequence of the calls
   of func it makes *)

ParArgs ==
    [s : Schedulers, n : 1..MaxThreads, len : 0..MaxParLen, k : 0..MaxChunk]

InitPar ==
    /\ pc = "par: start"
    /\ call_args \in ParArgs
    /\ call_log = << >>
    /\ sched = call_args.s
    /\ threads = CurrentNumThreads(call_args.s, call_args.n)
    /\ aabbs = << >>
    /\ nodes = << >>
    /\ BuildIdle
    /\ SortIdle
    /\ TravIdle

\* what a call of an executor leaves alone
parFrame == << sched, threads, aabbs, current_nodes, pending, local_aabbs, total_aabb,
               nodes, insert_index, merge, depth, emitted, sortVars, travVars, call_args >>

\* scheduler.par_chunks_mut(data, func, chunk_size)
ParChunksMutCall ==
    /\ pc = "par: start"
    /\ call_log' = ParChunksMut(call_args.s, call_args.len, call_args.k)
    /\ pc' = "par: chunks"
    /\ UNCHANGED parFrame

\* scheduler.par_map(data, func, chunks), for chunks >= 1
ParMapCall ==
    /\ pc = "par: start"
    /\ call_args.k >= 1
    /\ call_log' = ParMap(call_args.s, call_args.len, call_args.k, call_args.n)
    /\ pc' = "par: map"
    /\ UNCHANGED parFrame

NextPar ==
    \/ ParChunksMutCall
    \/ ParMapCall

SpecPar == InitPar /\ [][NextPar]_vars

\* C13: par_chunks_mut of the sequential and the raw-thread backend calls func
\* exactly once for every chunk id k below ceil(len / chunk_size), with the
\* slice data[k * chunk_size .. min((k + 1) * chunk_size, len)), and makes no
\* other call; a chunk_size of 0 counts as 1, and empty data gives no call
C13_ChunksPartitionData ==
    (pc = "par: chunks" /\ call_args.s \in { "SequentialOptimized", "Sequential", "Raw" }) =>
        LET chunk_size == IF call_args.k = 0 THEN 1 ELSE call_args.k
            count      == (call_args.len + chunk_size - 1) \div chunk_size
        IN  /\ Len(call_log) = count
            /\ \A k \in 0..(count - 1) :
                 \E i \in 1..Len(call_log) :
                     /\ call_log[i].id = k
                     /\ call_log[i].off = k * chunk_size
                     /\ call_log[i].off + call_log[i].len =
                            IF (k + 1) * chunk_size < call_args.len THEN (k + 1) * chunk_size
                            ELSE call_args.len
C13_Witness ==
    /\ pc = "par: chunks"
    /\ call_args.s = "Raw"
    /\ call_args.len = MaxParLen
    /\ call_args.k = MaxParLen - 2
    /\ Len(call_log) = 2

\* C14: par_map calls func exactly once for every index below len, each time
\* with the element at that index of data, under every backend
C14_MapVisitsEachIndexOnce ==
    pc = "par: map" =>
        /\ Len(call_log) = call_args.len
        /\ \A j \in 1..Len(call_log) : call_log[j].idx = call_log[j].pos
        /\ \A i \in 0..(call_args.len - 1) :
             Cardinality({ j \in 1..Len(call_log) : call_log[j].idx = i }) = 1
C14_Witness ==
    /\ pc = "par: map"
    /\ call_args.s = "Raw"
    /\ call_args.len = MaxParLen - 1
    /\ call_args.k = MaxParLen - 2
    /\ Len(call_log) = MaxParLen - 1

-----------------------------------------------------------------------------
(* morton_encode_u64 on its own: two points that differ along call_args.axis
   only, with the quantised coordinates a and b there and c, d elsewhere *)

\* quantised coordinates below 2^21: every single bit, neighbours of powers of
\* two, alternating bits, the least and the greatest
MortonCoords ==
    { Pow2(k) : k \in 0..20 } \cup { 0, 3, 5, 6, 1398101, 699050, 1048577, 2097151 }
SharedCoords == { 0, 5, 2097151 }

MortonArgs == [axis : 1..3, a : MortonCoords, b : MortonCoords,
               c : SharedCoords, d : SharedCoords]

\* the point with v along axis and c, d along the other two
PointAlong(axis, v, c, d) ==
    CASE axis = 1 -> << v, c, d >>
      [] axis = 2 -> << c, v, d >>
      [] OTHER    -> << c, d, v >>

InitMorton ==
    /\ pc = "morton: start"
    /\ call_args \in MortonArgs
    /\ call_log = << >>
    /\ sched = "Sequential"
    /\ threads = 1
    /\ aabbs = << >>
    /\ nodes = << >>
    /\ BuildIdle
    /\ SortIdle
    /\ TravIdle

\* split_by_3_u64 of the coordinate a, and morton_encode_u64 of both points
MortonEncode ==
    /\ pc = "morton: start"
    /\ LET p == PointAlong(call_args.axis, call_args.a, call_args.c, call_args.d)
           q == PointAlong(call_args.axis, call_args.b, call_args.c, call_args.d)
       IN  call_log' = [split |-> split_by_3_u64(call_args.a),
                        p |-> p, q |-> q,
                        code_p |-> morton_encode_u64(p[1], p[2], p[3]),
                        code_q |-> morton_encode_u64(q[1], q[2], q[3])]
    /\ pc' = "morton: done"
    /\ UNCHANGED parFrame

NextMorton ==
    \/ MortonEncode

SpecMorton == InitMorton /\ [][NextMorton]_vars

\* the positions of the set bits of a number below 2^21
BitsOf(v) == { k \in 0..20 : (v \div (2 ^ k)) % 2 = 1 }

\* x < y for two u64 given by their set bits
CodeLess(x, y) == \E b \in y \ x : \A c \in x \ y : c < b

\* C16: for coordinates below 2^21, split_by_3_u64 has bit 3k set exactly when
\* its argument has bit k set, morton_encode_u64 has the bits k of x, y and z
\* at 3k, 3k + 1 and 3k + 2, and the codes of two points that share two
\* coordinates are ordered as the coordinate in which they differ
C16_MortonInterleavesBits ==
    pc = "morton: done" =>
        /\ call_log.split = { 3 * k : k \in BitsOf(call_args.a) }
        /\ call_log.code_p = UNION { { 3 * k + (i - 1) : k \in BitsOf(call_log.p[i]) } :
                                      i \in 1..3 }
        /\ CodeLess(call_log.code_p, call_log.code_q) <=> call_args.a < call_args.b
        /\ call_log.code_p = call_log.code_q <=> call_args.a = call_args.b
C16_Witness ==
    /\ pc = "morton: done"
    /\ call_args.axis = 2
    /\ call_args.a = 1048576
    /\ call_args.b = 1048577
    /\ call_args.c = 2097151
    /\ 61 \in call_log.code_p
    /\ CodeLess(call_log.code_p, call_log.code_q)

-----------------------------------------------------------------------------
(* One merge pass of build_ploc on its own (src/src/ploc.rs:146-322), on
   call_args.cur as current_nodes under the scheduler call_args.s with
   call_args.n workers *)

\* current_nodes of a pass: 2..MaxCurrent nodes
\* a finite box whose half area, 65536 + 2^30, is above f32::MAX
HugeBox == [min |-> << 0, 0, 0 >>, max |-> << 32768, 32768, 1 >>]

PassBoxes == Boxes \cup { HugeBox }

PassCurrents ==
    UNION { { [i \in 1..len |-> InitNode(i - 1, b[i])] : b \in [1..len -> PassBoxes] } :
              len \in 2..MaxCurrent }

PassArgs ==
    { [cur |-> c, s |-> s, n |-> CurrentNumThreads(s, t)] :
        c \in PassCurrents, s \in Schedulers, t \in 1..MaxThreads }

InitPass ==
    /\ pc = "pass: start"
    /\ call_args \in PassArgs
    /\ call_log = << >>
    /\ sched = call_args.s
    /\ threads = call_args.n
    /\ aabbs = << >>
    /\ nodes = << >>
    /\ BuildIdle
    /\ SortIdle
    /\ TravIdle

\* "ploc calculate merge directions", on a merge array of zeros
PassDirections ==
    /\ pc = "pass: start"
    /\ \E mg \in MergeDirections(Filled(Len(call_args.cur), 0),
                                  call_args.cur, call_args.s, call_args.n) :
           call_log' = [merge |-> mg]
    /\ pc' = "pass: directions"
    /\ UNCHANGED parFrame

\* nodes and insert_index as build_ploc allocates them for |current| leaves
PassStart(cur) ==
    [next |-> << >>, nodes |-> Filled(NodesCount(Len(cur)), DefaultNode),
     insert_index |-> NodesCount(Len(cur)), ok |-> TRUE]

\* "ploc merge sequential"
PassEmitSequential ==
    /\ pc = "pass: directions"
    /\ EmitsSequentially(call_args.cur, call_args.s)
    /\ call_log' = [merge |-> call_log.merge,
                    ind |-> << >>,
                    st |-> MergeSequential(call_args.cur, call_log.merge, 0,
                                           PassStart(call_args.cur))]
    /\ pc' = "pass: emitted"
    /\ UNCHANGED parFrame

\* "ploc merge parallel": par_chunks_mut over next_node_ind
PassRecord ==
    /\ pc = "pass: directions"
    /\ ~EmitsSequentially(call_args.cur, call_args.s)
    /\ \E ind \in NextNodeInd(call_log.merge, call_args.s, call_args.n) :
           call_log' = [merge |-> call_log.merge,
                        ind |-> ind,
                        st |-> PassStart(call_args.cur)]
    /\ pc' = "pass: recorded"
    /\ UNCHANGED parFrame

\* "apply next_node_ind"
PassApply ==
    /\ pc = "pass: recorded"
    /\ call_log' = [call_log EXCEPT
                       !.st = ApplyNextNodeInd(call_args.cur, call_log.ind, 1, @)]
    /\ pc' = "pass: applied"
    /\ UNCHANGED parFrame

NextPass ==
    \/ PassDirections
    \/ PassEmitSequential
    \/ PassRecord
    \/ PassApply

SpecPass == InitPass /\ [][NextPass]_vars

\* the cost of merging the nodes i and i + 1 of the pass
PassCost(i) ==
    HalfArea(Union(call_args.cur[i + 1].aabb, call_args.cur[i + 2].aabb))

\* C17: under every scheduler and worker count, also with more workers than
\* |current| - 1, the merge directions of 0 .. |current| - 2 are those of
\* the single pass from the left: -1 where the cost to the left (f32::MAX at
\* 0) is lower than the cost to the right, +1 elsewhere
C17_ChunkedDirectionsAsSequential ==
    pc = "pass: directions" =>
        \A i \in 0..(Len(call_args.cur) - 2) :
            At(call_log.merge, i) =
                IF (IF i = 0 THEN F32_MAX ELSE PassCost(i - 1)) < PassCost(i) THEN -1 ELSE 1
\* a chunked pass with more workers than |current| - 1 where the single pass
\* from the left gives a -1 before the last node
C17_Witness ==
    /\ pc = "pass: directions"
    /\ call_args.s = "Chili"
    /\ call_args.n > Len(call_args.cur) - 1
    /\ \E i \in 1..(Len(call_args.cur) - 2) : PassCost(i - 1) < PassCost(i)

\* C18: on the same current and merge arrays the record/apply emission gives
\* the next sequence, the nodes and the insert_index of the sequential
\* emission, and the recording stage writes neither nodes nor insert_index
C18_RecordApplyAsSequential ==
    /\ pc = "pass: recorded" => call_log.st = PassStart(call_args.cur)
    /\ pc = "pass: applied" =>
           call_log.st = MergeSequential(call_args.cur, call_log.merge, 0,
                                         PassStart(call_args.cur))
C18_Witness ==
    /\ pc = "pass: applied"
    /\ Len(call_args.cur) = MaxCurrent
    /\ call_args.n = 3
    /\ Len(call_log.st.next) = 2
    /\ call_log.st.insert_index = NodesCount(MaxCurrent) - 4
    /\ call_log.st.ok

\* the pass has emitted: by the sequential loop or by record and apply
PassEmitted == pc \in { "pass: emitted", "pass: applied" }

\* the lower members i of the mutual pairs (i, i + 1) of the pass
MutualPairs ==
    { i \in 0..(Len(call_args.cur) - 2) :
        At(call_log.merge, i) = 1 /\ At(call_log.merge, i + 1) = -1 }

\* insert_index after the pair with lower member i is emitted: decremented by
\* 2 for every pair up to it
PairInsertIndex(i) ==
    NodesCount(Len(call_args.cur)) - 2 * Cardinality({ j \in MutualPairs : j <= i })

\* C19: for every mutual pair (i, i + 1) the emission decrements insert_index
\* by 2, writes current[i], the lower member, to nodes[insert_index] and
\* current[i + 1] to nodes[insert_index + 1], and pushes the parent with
\* index = insert_index and the union of the two boxes
C19_LowerMemberWrittenFirst ==
    PassEmitted =>
        \A i \in MutualPairs :
            LET ins == PairInsertIndex(i)
            IN  /\ At(call_log.st.nodes, ins) = At(call_args.cur, i)
                /\ At(call_log.st.nodes, ins + 1) = At(call_args.cur, i + 1)
                /\ \E k \in 1..Len(call_log.st.next) :
                       call_log.st.next[k] =
                           Parent(At(call_args.cur, i), At(call_args.cur, i + 1), ins)
\* an emitted pass with two mutual pairs
C19_Witness ==
    /\ PassEmitted
    /\ call_log.st.ok
    /\ Cardinality(MutualPairs) = 2

\* what the emission does: the higher member current[i + 1] goes to
\* nodes[insert_index] and the lower member current[i] to nodes[insert_index + 1]
EmissionWritesHigherMemberFirst ==
    PassEmitted /\ call_log.st.ok =>
        /\ call_log.st.insert_index =
               NodesCount(Len(call_args.cur)) - 2 * Cardinality(MutualPairs)
        /\ \A i \in MutualPairs :
            LET ins == PairInsertIndex(i)
            IN  /\ At(call_log.st.nodes, ins) = At(call_args.cur, i + 1)
                /\ At(call_log.st.nodes, ins + 1) = At(call_args.cur, i)
                /\ \E k \in 1..Len(call_log.st.next) :
                       call_log.st.next[k] =
                           Parent(At(call_args.cur, i + 1), At(call_args.cur, i), ins)

\* C20: in every merge pass merge[0] = +1 and merge[|current| - 1] = -1, equal
\* neighbouring costs give +1, the partner index i + merge[i] of every i lies
\* in [0, |current|), and the emission reads merge and current in bounds
C20_PartnerInBounds ==
    LET len == Len(call_args.cur)
    IN  /\ pc = "pass: directions" =>
               /\ At(call_log.merge, 0) = 1
               /\ At(call_log.merge, len - 1) = -1
               /\ \A i \in 1..(len - 2) :
                      PassCost(i - 1) = PassCost(i) => At(call_log.merge, i) = 1
               /\ \A i \in 0..(len - 1) : i + At(call_log.merge, i) \in 0..(len - 1)
        /\ pc = "pass: recorded" => \A k \in 1..len : call_log.ind[k].ok
        /\ PassEmitted => call_log.st.ok
\* the sequential emission has read merge out of bounds at index 0
C20_Witness ==
    /\ pc = "pass: emitted"
    /\ At(call_log.merge, 0) = -1
    /\ ~call_log.st.ok
    /\ call_log.st.next = << >>

\* with half areas of at most f32::MAX the directions are in bounds
DirectionsInBoundsWhenFinite ==
    (pc = "pass: directions" /\ \A i \in 0..(Len(call_args.cur) - 2) : PassCost(i) <= F32_MAX)
        => \A i \in 0..(Len(call_args.cur) - 1) :
               i + At(call_log.merge, i) \in 0..(Len(call_args.cur) - 1)

-----------------------------------------------------------------------------
(* build_ploc with every parallel call made from the first to the last on the
   calling thread, as the function of the input, the scheduler and the worker
   count that the interleaved runs are compared with *)

RECURSIVE OneThreadInit(_, _, _, _, _)
\* the init_nodes closure on the chunks k.. in turn: << current_nodes, reducer >>
OneThreadInit(acc, in, chunks, k, chunk_size) ==
    IF k > Len(chunks) THEN acc
    ELSE OneThreadInit(<< InitClosureNodes(acc[1], in, chunks[k], chunk_size, 0),
                          InitClosureLocal(acc[2], in, chunks[k], chunk_size, 0) >>,
                       in, chunks, k + 1, chunk_size)

\* << current_nodes, total_aabb >> after "init nodes"
OneThreadLeaves(in, s, n) ==
    IF s = "SequentialOptimized"
    THEN SeqOptInit(in, 0, << Filled(Len(in), DefaultNode), EmptyAabb >>)
    ELSE LET r == OneThreadInit(<< Filled(Len(in), DefaultNode), DefaultAabb >>, in,
                                ParChunksMut(s, Len(in), Len(in) \div n), 1,
                                Len(in) \div n)
         IN  << r[1], ReduceLocals(EmptyAabb, [t \in { 0 } |-> r[2]]) >>

\* the Morton64 array handed to the sort
OneThreadMortons(cur, total, s, n) ==
    GenMortons(Filled(Len(cur), DefaultMorton), ParMap(s, Len(cur), n, n), 1, cur,
               total)

\* sorted_nodes for the array m the sort has left
OneThreadCopyBack(cur, m, s, n) ==
    CopyBack(Filled(Len(cur), DefaultNode), ParMap(s, Len(cur), n, n), 1, cur, m)

\* the emission of one pass
OneThreadEmit(cur, mg, s, n, st) ==
    IF EmitsSequentially(cur, s) THEN MergeSequential(cur, mg, 0, st)
    ELSE ApplyNextNodeInd(cur, NextNodeIndIn(mg, n, RecordChunksOf(mg, s, n)), 1, st)

\* the direction pass of one pass
OneThreadDirections(mg, cur, s, n) ==
    MergeDirectionsIn(mg, cur, s, n, DirectionChunks(cur, s, n))

\* one pass: the direction pass and the emission, as << merge, state >>
OneThreadPass(mg, cur, st, s, n) ==
    << mg, OneThreadEmit(cur, mg, s, n, [st EXCEPT !.next = << >>]) >>

RECURSIVE OneThreadMerge(_, _, _, _, _)
\* the merge passes and the root placement: the node array returned, << >>
\* standing for a panic
OneThreadMerge(cur, mg, st, s, n) ==
    IF ~st.ok THEN << >>
    ELSE IF Len(cur) <= 1
    THEN SetAt(st.nodes, Max2(st.insert_index - 1, 0), At(cur, 0))
    ELSE LET r == OneThreadPass(OneThreadDirections(mg, cur, s, n), cur, st, s, n)
         IN  OneThreadMerge(r[2].next, r[1], r[2], s, n)

\* the node arrays build_ploc returns for the leaves and total_aabb in l: one
\* for every array the library sort may leave
OneThreadBuildsFrom(l, s, n) ==
    { OneThreadMerge(OneThreadCopyBack(l[1], m, s, n), Filled(Len(l[1]), 0),
                     [next |-> << >>,
                      nodes |-> Filled(NodesCount(Len(l[1])), DefaultNode),
                      insert_index |-> NodesCount(Len(l[1])), ok |-> TRUE], s, n) :
        m \in SortMortons(OneThreadMortons(l[1], l[2], s, n)) }

OneThreadBuilds(in, s, n) == OneThreadBuildsFrom(OneThreadLeaves(in, s, n), s, n)

-----------------------------------------------------------------------------
(* Where the nodes of current go in one pass *)

\* the positions of current that give a node of next: the nodes without a
\* mutual partner and the higher members of the mutual pairs
NextSlots == { i \in 0..(Len(call_args.cur) - 1) : i \notin MutualPairs }

\* the k-th position of NextSlots, from the left
NextSlot(k) ==
    CHOOSE i \in NextSlots : Cardinality({ j \in NextSlots : j <= i }) = k

\* the positions of nodes that hold the node e
PlacesOf(e) ==
    { q \in 1..Len(call_log.st.nodes) : call_log.st.nodes[q] = e }

\* C21: in a pass that runs to its end, |next| = |current| - pairs; next holds,
\* in the order of current, each node without a mutual partner unchanged and
\* for each mutual pair one parent, whose two children in nodes are the
\* members of the pair; every member of a pair is in nodes exactly once and
\* not in next, every other node is in next exactly once and not in nodes
C21_EveryNodeGoesToOnePlace ==
    (PassEmitted /\ call_log.st.ok) =>
        LET cur  == call_args.cur
            next == call_log.st.next
        IN  /\ Len(next) = Len(cur) - Cardinality(MutualPairs)
            /\ \A k \in 1..Len(next) :
                   LET i == NextSlot(k)
                   IN  IF i - 1 \in MutualPairs
                       THEN /\ next[k].aabb = Union(At(cur, i - 1).aabb, At(cur, i).aabb)
                            /\ next[k].index >= 0
                            /\ { At(call_log.st.nodes, next[k].index),
                                 At(call_log.st.nodes, next[k].index + 1) } =
                                   { At(cur, i - 1), At(cur, i) }
                       ELSE next[k] = At(cur, i)
            /\ \A i \in 0..(Len(cur) - 1) :
                   IF i \in MutualPairs \/ i - 1 \in MutualPairs
                   THEN /\ Cardinality(PlacesOf(At(cur, i))) = 1
                        /\ \A k \in 1..Len(next) : next[k] # At(cur, i)
                   ELSE /\ PlacesOf(At(cur, i)) = {}
                        /\ Cardinality({ k \in 1..Len(next) : next[k] = At(cur, i) }) = 1
\* a recorded and applied pass over four nodes: a node without partner, then
\* a mutual pair, then another node without partner
C21_Witness ==
    /\ pc = "pass: applied"
    /\ call_log.st.ok
    /\ Len(call_args.cur) = 4
    /\ MutualPairs = { 1 }
    /\ Len(call_log.st.next) = 3

-----------------------------------------------------------------------------
(* total_aabb after the parallel leaf initialisation *)

\* C22: once par_chunks_mut has returned and the thread-local reducers are
\* merged, total_aabb is the union of the N input boxes, whatever threads ran
\* the chunks; and while the leaf initialisation runs nothing of the sort
\* exists yet (nodes and merge are allocated after sort_nodes_m64)
C22_TotalIsUnionOfInputs ==
    /\ (pc = "sort" /\ sched # "SequentialOptimized") =>
           total_aabb = UnionOfInputs(PrimCount)
    /\ pc = "init" => (nodes = << >> /\ merge = << >> /\ total_aabb = EmptyAabb)
\* the reducers are merged after two chunks ran on two threads, with no more
\* workers than boxes, and total_aabb reaches the origin, which no input box
\* does
C22_Witness ==
    /\ pc = "sort"
    /\ sched = "Chili"
    /\ threads = 2
    /\ PrimCount = 2
    /\ Cardinality(DOMAIN local_aabbs) = 2
    /\ total_aabb.min = << 0, 0, 0 >>
    /\ UnionOfInputs(PrimCount).min = << 1, 0, 0 >>

\* total_aabb after the merge of the reducers: the union of the boxes the
\* chunks read and of the origin
TotalIsUnionWithOrigin ==
    (pc = "sort" /\ sched # "SequentialOptimized" /\ threads <= PrimCount) =>
        total_aabb = Union(DefaultAabb, UnionOfInputs(PrimCount))

-----------------------------------------------------------------------------
(* The counting routines on their own: one call of get_counts_with_ends, of
   par_get_counts_with_ends or of get_tile_counts on call_args.bucket at
   call_args.level; call_log is what the call returns *)

\* the length of the buckets that par_get_counts_with_ends cuts into chunks of
\* more than one element (bucket.len() / threads / chunk_divisor + 1 > 1)
LongLen == 8

\* the bucket whose bytes at `level` are bs; the other bytes of a key follow
\* the position, and the payload is the position
BucketOf(bs, level) ==
    [i \in 1..Len(bs) |->
        [key |-> [j \in 1..SortLevels |-> IF j = level + 1 THEN bs[i] ELSE i % Radix],
         id  |-> i]]

\* buckets of up to MaxLen elements over all bytes under every scheduler and
\* thread count, and buckets of LongLen elements over the least and the
\* greatest byte with one thread; every tile_size from 1 to beyond the length
CountArgs(levels) ==
    { [bucket |-> BucketOf(bs, l), level |-> l, tile_size |-> ts, s |-> s,
       n |-> CurrentNumThreads(s, t)] :
        bs \in UNION { [1..k -> Bytes] : k \in 0..MaxLen }, l \in levels,
        ts \in 1..(MaxLen + 1), s \in Schedulers, t \in 1..MaxThreads }
    \cup
    { [bucket |-> BucketOf(bs, l), level |-> l, tile_size |-> ts, s |-> s, n |-> 1] :
        bs \in [1..LongLen -> { 0, Radix - 1 }], l \in levels,
        ts \in { 1, LongLen \div 2, LongLen + 1 }, s \in Schedulers }

InitCounts ==
    /\ pc = "counts: start"
    /\ call_args \in CountArgs(0..(SortLevels - 1))
    /\ call_log = << >>
    /\ sched = call_args.s
    /\ threads = call_args.n
    /\ aabbs = << >>
    /\ nodes = << >>
    /\ BuildIdle
    /\ SortIdle
    /\ TravIdle

\* the messages the closure of par_get_counts_with_ends sends, in the order of
\* the calls of par_chunks
ChunkMessages(bucket, level, s, n) ==
    LET chunk_size == (Len(bucket) \div n) \div ChunkDivisor + 1
        chunks     == ParChunksMut(s, Len(bucket), chunk_size)
    IN  [k \in 1..Len(chunks) |->
            [i |-> chunks[k].id,
             c |-> get_counts_with_ends(Slice(bucket, chunks[k].off, chunks[k].len),
                                        level)]]

RECURSIVE ReceiveLoop(_, _, _, _, _)
\* the loop `for _ in 0..len` over rx.recv() of par_get_counts_with_ends, the
\* messages read in the order they arrived in
ReceiveLoop(arrived, k, msb_counts, already_sorted, boundaries) ==
    IF k > Len(arrived)
    THEN [counts |-> msb_counts, sorted |-> already_sorted, boundaries |-> boundaries]
    ELSE ReceiveLoop(arrived, k + 1, AddCounts(msb_counts, arrived[k].c.counts),
                     already_sorted /\ arrived[k].c.sorted,
                     SetAt(boundaries, arrived[k].i,
                           << arrived[k].c.first, arrived[k].c.last >>))

\* the boundaries are stored in the order of arrival, not under the chunk id
ReceiveCountsByArrival(arrived, len) ==
    LET got == [k \in 1..len |-> << arrived[k].c.first, arrived[k].c.last >>]
        l   == ReceiveLoop(arrived, 1, [b \in Bytes |-> 0], TRUE, got)
    IN  [counts |-> l.counts,
         sorted |-> /\ l.sorted
                    /\ \A w \in 1..(len - 1) : ~(got[w + 1][1] < got[w][2]),
         first  |-> got[1][1],
         last   |-> got[len][2]]

\* par_get_counts_with_ends from the channel on: the receive loop over the
\* first len messages, the check of the boundaries, the result
ReceiveCounts(arrived, len) ==
    LET l == ReceiveLoop(SubSeq(arrived, 1, len), 1, [b \in Bytes |-> 0], TRUE,
                         Filled(len, << 0, 0 >>))
    IN  [counts |-> l.counts,
         sorted |-> /\ l.sorted
                    /\ \A w \in 1..(len - 1) :
                           ~(l.boundaries[w + 1][1] < l.boundaries[w][2]),
         first  |-> l.boundaries[1][1],
         last   |-> l.boundaries[len][2]]

\* get_counts_with_ends(bucket, level) on a bucket that is not empty
GetCountsCall ==
    /\ pc = "counts: start"
    /\ Len(call_args.bucket) > 0
    /\ call_log' = get_counts_with_ends(call_args.bucket, call_args.level)
    /\ pc' = "counts: counted"
    /\ UNCHANGED parFrame

\* par_get_counts_with_ends(bucket, level) on a bucket that is cut into
\* chunks: the messages arrive in any order the backend can produce; the loop
\* waits for len of them (and blocks when fewer are sent)
ParGetCountsCall ==
    /\ pc = "counts: start"
    /\ Len(call_args.bucket) >= ParCountsMin
    /\ \E arrived \in RunsOf(call_args.s, ChunkMessages(call_args.bucket, call_args.level,
                                                      call_args.s, call_args.n)) :
         LET chunk_size == (Len(call_args.bucket) \div call_args.n) \div ChunkDivisor + 1
             len        == DivCeil(Len(call_args.bucket), chunk_size)
         IN  IF Len(arrived) < len
             THEN /\ call_log' = [sent |-> Len(arrived), awaited |-> len]
                  /\ pc' = "counts: blocked"
             ELSE /\ call_log' = [sent |-> Len(arrived), awaited |-> len,
                                  chunk_size |-> chunk_size,
                                  r |-> ReceiveCounts(arrived, len)]
                  /\ pc' = "counts: received"
    /\ UNCHANGED parFrame

\* get_tile_counts(bucket, tile_size, level)
GetTileCountsCall ==
    /\ pc = "counts: start"
    /\ call_log' = get_tile_counts(call_args.bucket, call_args.tile_size, call_args.level,
                                   call_args.s, call_args.n)
    /\ pc' = "counts: tiles"
    /\ UNCHANGED parFrame

NextCounts ==
    \/ GetCountsCall
    \/ ParGetCountsCall
    \/ GetTileCountsCall

SpecCounts == InitCounts /\ [][NextCounts]_vars

\* the bytes at call_args.level over the whole bucket
LevelBytes == [i \in 1..Len(call_args.bucket) |->
                  GetLevel(call_args.bucket[i], call_args.level)]
BytesNonDecreasing == \A i \in 1..(Len(LevelBytes) - 1) : LevelBytes[i] <= LevelBytes[i + 1]
\* tile p (from 0) of the bucket
TileElements(p) ==
    { i \in 1..Len(call_args.bucket) :
        i > p * call_args.tile_size /\ i <= (p + 1) * call_args.tile_size }

\* C23: get_tile_counts returns already_sorted = true exactly when the bytes at
\* the level are non-decreasing over the whole bucket, for every tile_size >= 1,
\* and the histogram of each tile counts every element of the tile once
C23_TileCountsAndSortedness ==
    pc = "counts: tiles" =>
        /\ call_log.all_sorted = BytesNonDecreasing
        /\ Len(call_log.tile_counts) = DivCeil(Len(call_args.bucket), call_args.tile_size)
        /\ \A p \in 1..Len(call_log.tile_counts) : \A b \in Bytes :
               call_log.tile_counts[p][b] =
                   Cardinality({ i \in TileElements(p - 1) : LevelBytes[i] = b })
\* two tiles, each sorted in itself, with a descent from the first to the second
C23_Witness ==
    /\ pc = "counts: tiles"
    /\ Len(call_args.bucket) = 4
    /\ call_args.tile_size = 2
    /\ LevelBytes = << 0, 1, 0, 1 >>
    /\ ~call_log.all_sorted
\* get_counts_with_ends on its own: exact counts, sorted exactly when the bytes
\* are non-decreasing, the first byte, and the last byte when sorted
CountsWithEndsExact ==
    pc = "counts: counted" =>
        /\ call_log.counts = CountsOf(call_args.bucket, call_args.level)
        /\ call_log.sorted = BytesNonDecreasing
        /\ call_log.first = LevelBytes[1]
        /\ call_log.sorted => call_log.last = LevelBytes[Len(LevelBytes)]

\* C26: par_get_counts_with_ends returns the same counts, flag and first/last
\* byte for every order of arrival of the messages, and waits for as many
\* messages as chunks send one
C26_SameResultForEveryArrivalOrder ==
    /\ pc # "counts: blocked"
    /\ pc = "counts: received" =>
           /\ call_log.sent = call_log.awaited
           /\ call_log.r = ReceiveCounts(ChunkMessages(call_args.bucket, call_args.level,
                                                       call_args.s, call_args.n),
                                         call_log.awaited)
           /\ call_log.r = par_get_counts_with_ends(call_args.bucket, call_args.level,
                                                    call_args.s, call_args.n).r
           /\ call_log.r.counts = CountsOf(call_args.bucket, call_args.level)
           /\ call_log.r.sorted = BytesNonDecreasing
\* four chunks of two elements, sent from threads of their own, the bucket
\* sorted
C26_Witness ==
    /\ pc = "counts: received"
    /\ call_args.s = "Raw"
    /\ call_log.chunk_size = 2
    /\ call_log.sent = 4
    /\ call_log.r.sorted
    /\ call_log.r.first < call_log.r.last

-----------------------------------------------------------------------------
(* ska_sort step by step: call_args is the call (bucket, level, and the
   prefix_sums and end_offsets of the exact histogram), call_log the locals
   of the call: bucket, prefix_sums, finished, finished_map, b, i, end, and
   passes, the number of times the body of the while loop was entered *)

\* the passes of the while loop of ska_sort that are followed
MaxPasses == MaxLen + 3

\* buckets of up to MaxLen + 1 elements over all bytes, sorted at each of levels
SkaArgs(levels) ==
    { [bucket |-> BucketOf(bs, l), level |-> l,
       prefix_sums |-> get_prefix_sums(CountsOf(BucketOf(bs, l), l)),
       end_offsets |-> get_end_offsets(CountsOf(BucketOf(bs, l), l),
                                       get_prefix_sums(CountsOf(BucketOf(bs, l), l)))] :
        bs \in UNION { [1..k -> Bytes] : k \in 0..(MaxLen + 1) },
        l \in levels }

InitSka ==
    /\ pc = "ska: start"
    /\ call_args \in SkaArgs(0..(SortLevels - 1))
    /\ call_log = << >>
    /\ sched = "Sequential"
    /\ threads = 1
    /\ aabbs = << >>
    /\ nodes = << >>
    /\ BuildIdle
    /\ SortIdle
    /\ TravIdle

\* the body of `for i in prefix_sums[b]..end_offsets[b]` with the swap left out
SkaVisitNoSwap(st, i, level) ==
    [st EXCEPT !.prefix_sums[GetLevel(At(st.bucket, i), level)] = @ + 1]

\* the body of `for i in prefix_sums[b]..end_offsets[b]`
SkaVisit(st, i, level) ==
    LET new_b == GetLevel(At(st.bucket, i), level)
    IN  [st EXCEPT !.bucket = Swap(@, st.prefix_sums[new_b], i),
                   !.prefix_sums[new_b] = @ + 1]

\* ska_sort up to the while loop: the scan for the largest bucket, the early
\* return, the partition of the largest bucket, its mark
SkaStart ==
    /\ pc = "ska: start"
    /\ LET bucket        == call_args.bucket
           prefix_sums   == call_args.prefix_sums
           end_offsets   == call_args.end_offsets
           Rem(b)        == end_offsets[b] - prefix_sums[b]
           largest       == CHOOSE m \in { Rem(b) : b \in Bytes } :
                                \A b \in Bytes : Rem(b) <= m
           largest_index == IF largest = 0 THEN 0
                            ELSE CHOOSE b \in Bytes :
                                     Rem(b) = largest /\ \A c \in 0..(b - 1) : Rem(c) < largest
           lo            == prefix_sums[largest_index]
           region        == Slice(bucket, lo, end_offsets[largest_index] - lo)
           mine          == { v \in SeqOf(region) :
                                GetLevel(v, call_args.level) = largest_index }
           offs          == Cardinality({ i \in 1..Len(region) : region[i] \in mine })
           scanned       == [b \in Bytes |-> Rem(b) = 0]
           st0           == [bucket |-> bucket, prefix_sums |-> prefix_sums,
                             finished_map |-> scanned,
                             finished |-> Cardinality({ b \in Bytes : scanned[b] }),
                             b |-> 0, i |-> 0, end |-> 0, passes |-> 0]
           Marked(st)    == IF st.finished_map[largest_index] THEN st
                            ELSE [st EXCEPT !.finished_map[largest_index] = TRUE,
                                            !.finished = @ + 1]
       IN  IF largest = Len(bucket)
           THEN /\ call_log' = st0
                /\ pc' = "ska: returned early"
           ELSE IF largest > Len(bucket) \div 2
           THEN \E part \in PartitionIndex(region, mine) :
                    /\ call_log' = Marked([st0 EXCEPT
                                              !.bucket = Splice(bucket, lo, part),
                                              !.prefix_sums[largest_index] = @ + offs])
                    /\ pc' = "ska: while"
           ELSE /\ call_log' = Marked(st0)
                /\ pc' = "ska: while"
    /\ UNCHANGED parFrame

\* while finished != 256 (followed for MaxPasses passes)
SkaWhileTest ==
    /\ pc = "ska: while"
    /\ IF call_log.finished = Radix
       THEN /\ pc' = "ska: returned"
            /\ UNCHANGED call_log
       ELSE /\ call_log.passes < MaxPasses
            /\ pc' = "ska: for"
            /\ call_log' = [call_log EXCEPT !.b = 0, !.passes = @ + 1]
    /\ UNCHANGED parFrame

\* for b in 0..256: the end of the loop, the continue, the mark of a bucket
\* with nothing left, and the range of the inner loop
SkaForByte ==
    /\ pc = "ska: for"
    /\ LET b == call_log.b
       IN  IF b = Radix
           THEN /\ pc' = "ska: while"
                /\ UNCHANGED call_log
           ELSE IF call_log.finished_map[b]
           THEN /\ pc' = "ska: for"
                /\ call_log' = [call_log EXCEPT !.b = b + 1]
           ELSE /\ pc' = "ska: inner"
                /\ call_log' =
                       [(IF call_log.prefix_sums[b] >= call_args.end_offsets[b]
                         THEN [call_log EXCEPT !.finished_map[b] = TRUE, !.finished = @ + 1]
                         ELSE call_log)
                        EXCEPT !.i = call_log.prefix_sums[b],
                               !.end = call_args.end_offsets[b]]
    /\ UNCHANGED parFrame

\* for i in prefix_sums[b]..end_offsets[b]: one element, or the end of the range
SkaInnerStep ==
    /\ pc = "ska: inner"
    /\ IF call_log.i >= call_log.end
       THEN /\ pc' = "ska: for"
            /\ call_log' = [call_log EXCEPT !.b = @ + 1]
       ELSE LET new_b == GetLevel(At(call_log.bucket, call_log.i), call_args.level)
            IN  IF call_log.prefix_sums[new_b] >= Len(call_log.bucket)
                THEN /\ pc' = "ska: panic"
                     /\ UNCHANGED call_log
                ELSE /\ pc' = "ska: inner"
                     /\ call_log' = [SkaVisit(call_log, call_log.i, call_args.level)
                                     EXCEPT !.i = @ + 1]
    /\ UNCHANGED parFrame

NextSka ==
    \/ SkaStart
    \/ SkaWhileTest
    \/ SkaForByte
    \/ SkaInnerStep

SpecSka == InitSka /\ [][NextSka]_vars

SkaReturned == pc \in { "ska: returned", "ska: returned early" }
\* every position of the region of byte b holds an element with byte b
InItsRegion(bucket) ==
    \A b \in Bytes : \A q \in call_args.prefix_sums[b]..(call_args.end_offsets[b] - 1) :
        GetLevel(At(bucket, q), call_args.level) = b

\* C24: with prefix_sums and end_offsets of the exact histogram, ska_sort
\* returns: every step but the return has a next step and the while loop ends
\* within one pass more than the bucket has elements; when the loop ends every
\* bucket is marked finished; the bucket it leaves is a permutation of the
\* input with every position of [start_b, end_b) holding byte b; and at no
\* time prefix_sums[b] exceeds end_offsets[b]
C24_SkaSortPlacesEveryByte ==
    /\ pc # "ska: start" =>
           /\ \A b \in Bytes : call_log.prefix_sums[b] <= call_args.end_offsets[b]
           /\ call_log.passes <= Len(call_args.bucket) + 1
    /\ pc # "ska: panic"
    /\ ~SkaReturned => ENABLED NextSka
    /\ pc = "ska: returned" =>
           /\ call_log.finished = Radix
           /\ \A b \in Bytes : call_log.finished_map[b]
    /\ SkaReturned =>
           /\ IsPermutationOf(call_log.bucket, call_args.bucket)
           /\ InItsRegion(call_log.bucket)
\* the loop has run three times over the bytes and ended, and the bucket is
\* not the one that was passed
C24_Witness ==
    /\ pc = "ska: returned"
    /\ call_log.passes = 3
    /\ Len(call_args.bucket) = MaxLen + 1
    /\ call_log.bucket # call_args.bucket
    /\ ~InItsRegion(call_args.bucket)
\* the step machine leaves what the operator ska_sort gives
SkaStepsAsOperator ==
    SkaReturned =>
        call_log.bucket \in ska_sort(call_args.bucket, call_args.prefix_sums,
                                     call_args.end_offsets, call_args.level)

-----------------------------------------------------------------------------
(* regions_sort pass by pass: call_args is the call (bucket, the exact global
   and tile counts at level, tile_size), call_log the locals of the call:
   bucket, the outstanding edges outbounds, the paired operations, and passes,
   the number of passes of the loop that executed operations *)

RegionsArgsOf(bucket, l, ts, s, n) ==
    [bucket |-> bucket, level |-> l, tile_size |-> ts, s |-> s, n |-> n,
     tile_counts |-> get_tile_counts(bucket, ts, l, s, n).tile_counts,
     counts |-> CountsOf(bucket, l),
     prefix_sums |-> get_prefix_sums(CountsOf(bucket, l)),
     end_offsets |-> get_end_offsets(CountsOf(bucket, l),
                                     get_prefix_sums(CountsOf(bucket, l)))]

\* buckets of 2..MaxLen+1 elements, cut into tiles of 1..MaxLen elements and
\* sorted at each of levels
RegionsArgs(levels) ==
    { RegionsArgsOf(BucketOf(bs, l), l, ts, s, CurrentNumThreads(s, t)) :
        bs \in UNION { [1..k -> Bytes] : k \in 2..(MaxLen + 1) },
        l \in levels, ts \in 1..MaxLen, s \in Schedulers,
        t \in 1..MaxThreads }

InitRegions ==
    /\ pc = "regions: start"
    /\ call_args \in RegionsArgs({ SortLevels - 1 })
    /\ call_log = << >>
    /\ sched = call_args.s
    /\ threads = call_args.n
    /\ aabbs = << >>
    /\ nodes = << >>
    /\ BuildIdle
    /\ SortIdle
    /\ TravIdle

\* regions_sort up to its loop: ska_sort on every tile, generate_outbounds
RegionsStart ==
    /\ pc = "regions: start"
    /\ \E b \in SkaTiles({ call_args.bucket },
                         ParChunksMut(call_args.s, Len(call_args.bucket),
                                      call_args.tile_size),
                         1, call_args.tile_counts, call_args.level) :
         call_log' = [bucket |-> b,
                      outbounds |-> SeqOf(generate_outbounds(call_args.tile_counts,
                                                             call_args.counts)),
                      operations |-> << >>, passes |-> 0]
    /\ pc' = "regions: loop"
    /\ UNCHANGED parFrame

\* the head of the loop: the break on no outbounds, list_operations for every
\* country, the break on no operations
RegionsList ==
    /\ pc = "regions: loop"
    /\ IF call_log.outbounds = {}
       THEN /\ pc' = "regions: returned"
            /\ UNCHANGED call_log
       ELSE /\ call_log.passes < MaxPasses
            /\ \E x \in ListAllOperations(0, { [outbounds |-> call_log.outbounds,
                                                operations |-> << >>] }) :
                 /\ call_log' = [call_log EXCEPT !.outbounds = x.outbounds,
                                                 !.operations = x.operations]
                 /\ pc' = IF x.operations = << >> THEN "regions: gave up"
                          ELSE "regions: listed"
    /\ UNCHANGED parFrame

\* the rest of the pass: the swaps, run chunk by chunk in any order the
\* backend can produce, and the new edges
RegionsSwap ==
    /\ pc = "regions: listed"
    /\ \E chunks \in RunsOf(call_args.s,
                            ParChunksMut(call_args.s, Len(call_log.operations),
                                         Len(call_log.operations) \div call_args.n + 1)) :
         call_log' = [bucket |-> ExecuteOperations(call_log.bucket, call_log.operations,
                                                   chunks, 1),
                      outbounds |-> call_log.outbounds
                                    \cup ResidualEdges(call_log.operations),
                      operations |-> << >>,
                      passes |-> call_log.passes + 1]
    /\ pc' = "regions: loop"
    /\ UNCHANGED parFrame

NextRegions ==
    \/ RegionsStart
    \/ RegionsList
    \/ RegionsSwap

SpecRegions == InitRegions /\ [][NextRegions]_vars

\* the positions of the slice of an edge
SliceOf(e) == e.off .. (e.off + e.len - 1)
\* the slices at hand in a pass: of the outstanding edges and of both edges of
\* every operation, as << tag, positions >>
SlicesAtHand ==
    { << "edge", e.off, SliceOf(e) >> : e \in call_log.outbounds }
    \cup { << "in", k, SliceOf(call_log.operations[k][1]) >> :
             k \in 1..Len(call_log.operations) }
    \cup { << "out", k, SliceOf(call_log.operations[k][2]) >> :
             k \in 1..Len(call_log.operations) }
\* an edge lies where the bytes of init belong and holds bytes dst
EdgeDescribesBucket(e) ==
    /\ e.len > 0
    /\ e.init # e.dst
    /\ \A q \in SliceOf(e) :
           /\ q >= call_args.prefix_sums[e.init] /\ q < call_args.end_offsets[e.init]
           /\ GetLevel(At(call_log.bucket, q), call_args.level) = e.dst

\* C25: with exact counts regions_sort returns: every pass has a next step and
\* the loop ends within as many passes as the bucket has elements; it leaves
\* through the break on an empty outbound list, never through the break on an
\* empty operation list, and then every element lies in the country of its byte
C25_RegionsSortEndsWithNoOutbounds ==
    /\ pc # "regions: gave up"
    /\ pc \in { "regions: loop", "regions: listed" } =>
           /\ ENABLED NextRegions
           /\ call_log.passes <= Len(call_args.bucket)
    /\ pc = "regions: returned" =>
           /\ call_log.outbounds = {}
           /\ IsPermutationOf(call_log.bucket, call_args.bucket)
           /\ InItsRegion(call_log.bucket)
\* two passes with swaps were needed before the outbound list was empty
C25_Witness ==
    /\ pc = "regions: returned"
    /\ call_log.passes = 2
    /\ ~InItsRegion(call_args.bucket)
\* the outstanding edges describe the bucket at the head of every pass, and
\* the data outside them lies in its country
EdgesDescribeBucket ==
    pc = "regions: loop" =>
        /\ \A e \in call_log.outbounds : EdgeDescribesBucket(e)
        /\ \A b \in Bytes : \A q \in call_args.prefix_sums[b]..(call_args.end_offsets[b] - 1) :
               (\A e \in call_log.outbounds : q \notin SliceOf(e)) =>
                   GetLevel(At(call_log.bucket, q), call_args.level) = b

\* C29: in every pass the slices of the outstanding edges and of the paired
\* operations are pairwise disjoint and the two slices of an operation have
\* the same length; the swaps of a pass leave the same array in whatever order
\* they are executed
C29_SwapsOfAPassAreIndependent ==
    /\ [](pc = "regions: listed" =>
            /\ \A x, y \in SlicesAtHand : x # y => x[3] \cap y[3] = {}
            /\ \A k \in 1..Len(call_log.operations) :
                   call_log.operations[k][1].len = call_log.operations[k][2].len
            /\ \A p \in Perms(Len(call_log.operations)) :
                   SwapChunk(call_log.bucket, InOrder(call_log.operations, p), 0,
                             Len(call_log.operations))
                   = SwapChunk(call_log.bucket, call_log.operations, 0,
                               Len(call_log.operations)))
    /\ [][pc = "regions: listed" =>
            call_log'.bucket = SwapChunk(call_log.bucket, call_log.operations, 0,
                                         Len(call_log.operations))]_vars
\* a pass with two operations and an edge left over; with three threads the
\* operations are two chunks of one, run on two threads
C29_Witness ==
    /\ pc = "regions: listed"
    /\ Len(call_log.operations) = 2
    /\ call_log.outbounds # {}
    /\ call_args.s = "Raw"
    /\ call_args.n = 3

-----------------------------------------------------------------------------
(* insert_index and the writes to nodes *)

\* the positions of nodes that hold what vec![Bvh2Node::default(); nodes_count]
\* put there: a node that was written is a leaf (index < 0) or a parent
\* (index >= 1)
Unwritten == { p \in 0..(Len(nodes) - 1) : At(nodes, p) = DefaultNode }
\* the internal nodes that have position p as a child
ParentsOf(p) ==
    { q \in InternalPositions : p \in { At(nodes, q).index, At(nodes, q).index + 1 } }

\* C27: at the start of every pass of the merge loop insert_index is
\* 2 * |current_nodes| - 1, so no emission finds insert_index below 2; a pass
\* writes the positions from its new insert_index up to its old one, which
\* were not written before, and the root is written to position 0 last; in
\* the tree returned every position 1 .. 2N-2 is a child of exactly one
\* internal node
C27_InsertIndexAndWrites ==
    /\ [](pc # "panic")
    /\ [](pc = "merge" =>
            /\ insert_index = 2 * Len(current_nodes) - 1
            /\ Unwritten = 0..(insert_index - 1))
    /\ [][pc = "merge" =>
            /\ insert_index' <= insert_index
            /\ pc' = "merge" => (insert_index - insert_index') % 2 = 0
            /\ pc' = "done" => insert_index' = 0
            /\ \A p \in 0..(Len(nodes) - 1) :
                   IF p >= insert_index' /\ p < insert_index
                   THEN At(nodes, p) = DefaultNode /\ At(nodes', p) # DefaultNode
                   ELSE At(nodes', p) = At(nodes, p)]_vars
    /\ [](Built =>
            /\ Unwritten = {}
            /\ ParentsOf(0) = {}
            /\ \A p \in 1..(2 * PrimCount - 2) : Cardinality(ParentsOf(p)) = 1)
\* a pass has emitted one pair of three nodes: two positions are written,
\* three are not, two nodes are left to merge
C27_Witness ==
    /\ pc = "merge"
    /\ PrimCount = 3
    /\ Len(current_nodes) = 2
    /\ insert_index = 3
    /\ Cardinality(Unwritten) = 3

-----------------------------------------------------------------------------
(* The calls of handle_chunk *)

\* the chunk of the call t of handle_chunk, in the array d
ChunkOf(d, t) == Slice(d, t.off, t.len)
\* the elements of chunk have the same byte at every level above level
SameBytesAbove(chunk, level) ==
    \A i, j \in 1..Len(chunk) : \A l \in (level + 1)..(SortLevels - 1) :
        GetLevel(chunk[i], l) = GetLevel(chunk[j], l)
\* where the elements with byte b start in a chunk that is ordered by its bytes
\* at level: after all the elements with a lesser byte
StartOf(chunk, level, b) ==
    Cardinality({ i \in 1..Len(chunk) : GetLevel(chunk[i], level) < b })

\* C28: every call handle_chunk(chunk, level, ..) that sort leads to is on a
\* chunk whose elements agree on every byte above level, and the calls
\* outstanding are on disjoint chunks; a call rearranges its chunk only; the
\* chunks that director hands out are, byte by byte, the consecutive slices of
\* the chunk that hold the elements with that byte (slices of at most one
\* element need no call); and the comparative fallback leaves its chunk
\* non-decreasing in the full key
C28_ChunksAgreeAboveLevel ==
    /\ [](pc = "sort: chunks" =>
            /\ \A t \in tasks : SameBytesAbove(ChunkOf(data, t), t.level)
            /\ \A t, u \in tasks :
                   t # u => (t.off + t.len <= u.off \/ u.off + u.len <= t.off))
    /\ [][(pc = "sort: chunks" /\ tasks # {}) =>
            \E t \in tasks \ tasks' :
                LET chunk == ChunkOf(data', t)
                    made  == tasks' \ tasks
                IN  /\ tasks \ tasks' = { t }
                    /\ IsPermutationOf(chunk, ChunkOf(data, t))
                    /\ \A q \in 1..Len(data) :
                           (q <= t.off \/ q > t.off + t.len) => data'[q] = data[q]
                    /\ made = IF t.len <= CmpMax \/ t.level = 0 THEN {}
                              ELSE { [off   |-> t.off + StartOf(chunk, t.level, b),
                                      len   |-> CountsOf(chunk, t.level)[b],
                                      level |-> t.level - 1,
                                      depth |-> t.depth + 1] :
                                       b \in { c \in Bytes :
                                                 CountsOf(chunk, t.level)[c] > 1 } }
                    /\ t.len > CmpMax =>
                           \A i \in 1..(Len(chunk) - 1) :
                               GetLevel(chunk[i], t.level) <= GetLevel(chunk[i + 1], t.level)
                    /\ t.len <= CmpMax => NonDecreasing(chunk)]_vars
\* a chunk handed out by director waits for the comparative fallback at level
\* 0, behind another chunk, and is not in order yet
C28_Witness ==
    /\ pc = "sort: chunks"
    /\ \E t \in tasks :
           /\ t.level = 0
           /\ t.off > 0
           /\ t.len = CmpMax
           /\ ~NonDecreasing(ChunkOf(data, t))

-----------------------------------------------------------------------------
(* The traversal of the node arrays build_ploc returns *)

\* the node arrays build_ploc returns: for every input among inputs,
\* scheduler and thread count, those of the run that makes the parallel calls
\* in order on one thread, which are those of every run; the empty
\* array for no box
PlocBvhs(inputs) ==
    { << >> } \cup
    UNION { OneThreadBuilds(in, c[1], c[2]) :
              in \in inputs \ { << >> },
              c \in { << s, CurrentNumThreads(s, t) >> :
                        s \in Schedulers, t \in 1..MaxThreads } }

\* the rays sent through these arrays: Ray::new_inf from every origin, along
\* x and along the diagonal of x and y
PlocRays ==
    { RayNew(o, d, 0, Infinity) : o \in Origins, d \in { << 1, 0, 0 >>, << 1, 1, 0 >> } }

\* a traversal made by new_traversal on an array build_ploc has returned
InitTravPloc ==
    /\ pc = "trav: call"
    /\ sched = "Sequential"
    /\ threads = 1
    /\ aabbs = << >>
    /\ BuildIdle
    /\ SortIdle
    /\ CallIdle
    /\ nodes \in PlocBvhs(Inputs)
    /\ ray \in PlocRays
    /\ tmax0 = ray.tmax
    /\ stack = NewStack(nodes)
    /\ closest_t = F32_MAX
    /\ closest_id = U32Max
    /\ prim_t \in IntersectionFns(nodes, ray)
    /\ hits = << >>
    /\ invoked = << >>
    /\ later = 0
    /\ pushed = NewStack(nodes)

\* traverse on the state new_traversal made, called again for as long as it
\* returns true and up to MaxLaterCalls times after; the state is not
\* re-initialised, and the index check of self.0[..] never fails on these
\* arrays (stated below)
NextTravPloc ==
    \/ TraverseCall
    \/ TraverseSkip
    \/ TraverseLeafHit
    \/ TraverseLeafMiss
    \/ TraversePush
    \/ TraverseReturnFalse
    \/ TraverseAgain

SpecTravPloc == InitTravPloc /\ [][NextTravPloc]_vars

\* C30: on every node array build_ploc returns, a traversal started with
\* new_traversal ends: no node index is pushed twice, every index pushed (and
\* so every index popped) is below |nodes|, every iteration of the loop pops
\* an index that was pushed, so that there are at most |nodes| iterations over
\* all calls, every state before the return of false has a next step, and
\* traverse returns false with an empty stack
C30_TraversalEnds ==
    /\ \A i, j \in 1..Len(pushed) : i # j => pushed[i] # pushed[j]
    /\ \A i \in 1..Len(pushed) : pushed[i] >= 0 /\ pushed[i] < Len(nodes)
    /\ \A i \in 1..Len(stack) : \E j \in 1..Len(pushed) : stack[i] = pushed[j]
    /\ Len(invoked) + Len(stack) <= Len(pushed)
    /\ pc \in { "trav: call", "trav: loop", "trav: done" }
    /\ pc \in { "trav: call", "trav: loop" } => ENABLED NextTravPloc
    /\ pc = "trav: done" => stack = << >>
\* traverse has returned false on a tree of five nodes after it has returned
\* true twice, with every node pushed
C30_Witness ==
    /\ pc = "trav: done"
    /\ Len(nodes) = 5
    /\ Len(pushed) = 5
    /\ Len(hits) = 2
    /\ stack = << >>

====
